---- MODULE Spec2Model ----
(***************************************************************************)
(* OrganMaker: the diagram store (src/src/store/useFlowStore.js), its      *)
(* undo/redo history (the zundo temporal middleware configured at          *)
(* useFlowStore.js:733-738) and the gesture batching built on top of it.   *)
(*                                                                         *)
(* One action per store operation, timer callback or React Flow event.     *)
(* Identifiers made by uuidv4() are drawn from a counter (nextId), so a    *)
(* new id never equals an id that is held anywhere (graph, history,        *)
(* clipboard, presets, storage).                                           *)
(***************************************************************************)
EXTENDS Integers, Sequences, FiniteSets, TLC

(***************************************************************************)
(* Bounds of the model.                                                    *)
(***************************************************************************)
\* Number of identifiers uuidv4() hands out in one behaviour.
MaxId == 4
\* The history limit.  The source sets 50 (config: UNDO_LIMIT); the model
\* runs the same code with a small limit so that a full stack is reached.
UNDO_LIMIT == 3
\* Number of operations, events and timer callbacks in one behaviour.
MaxOps == 6
\* The number of calls of the example scenario.
ScenarioOps == 7

(***************************************************************************)
(* Program constants (src/unnamed/part_001 is the config module).          *)
(***************************************************************************)
PERSON_NODE_WIDTH == 256
PERSON_NODE_HEIGHT == 200
PERSON_Z_INDEX == 10
SECTION_Z_INDEX == -10
SECTION_SELECTED_Z_INDEX == -5
LAYOUT_RANK_SEP == 100
LAYOUT_NODE_SEP == 60
LAYOUT_MARGIN_X == 40
LAYOUT_MARGIN_Y == 40
SIDE_OFFSET_X == 180
SIDE_STACK_GAP_Y == 25
SIDE_START_Y == 40
PASTE_OFFSET == 60
DEFAULT_EDGE_COLOR == "#6366f1"
DEFAULT_FILE_NAME == "Mon Organigramme"
DEFAULT_PERSON_NAME == "Nouveau"
DEFAULT_SECTION_TITLE == "Nouvelle Section"

(***************************************************************************)
(* Values.  An optional value (null or an object) is a sequence of length  *)
(* 0 or 1.                                                                 *)
(***************************************************************************)
Null == <<>>
Some(v) == <<v>>

Pos(x, y) == [x |-> x, y |-> y]

\* Positions handed to addPersonNode / addSectionNode (the default argument).
AddPositions == {Pos(100, 100)}
\* Positions React Flow reports while a node is dragged.
DragPositions == {Pos(100, 100), Pos(300, 100)}
\* Text typed into a name / title field.
EditValues == {"A", "B"}

SeqMap(s, F(_)) == [i \in 1..Len(s) |-> F(s[i])]
Range(s) == {s[i] : i \in 1..Len(s)}
NodeIds(ns) == {ns[i].id : i \in 1..Len(ns)}

VARIABLES
    \* the zustand store
    nodes, edges, fileName, fileVersion, presets,
    \* the zundo temporal store
    pastStates, futureStates, isTracking,
    \* module-level variables of useFlowStore.js
    clipboard, preDragSnapshot, editSnapshot, editTimer,
    \* localStorage[STORAGE_KEY], and the pending save callbacks
    storage, saveTimers,
    \* the next identifier uuidv4() returns
    nextId,
    \* React Flow's drag session: the id of the node under the pointer
    pointer,
    \* observation: the last operation, and what the history was before it
    lastOp, gPre,
    \* observation: the gestures in progress and the mutation sequence
    gDrag, gEdit, gSym,
    \* observation: the last copy and the pastes made from it
    gCopy,
    \* observation: how far the calls so far follow the example scenario
    gScen,
    \* observation: when the entries of the history were captured
    gClock,
    \* the number of steps taken
    steps

storeVars == <<nodes, edges, fileName, fileVersion, presets>>
temporalVars == <<pastStates, futureStates, isTracking>>
moduleVars == <<clipboard, preDragSnapshot, editSnapshot, editTimer>>
envVars == <<storage, saveTimers, nextId, pointer>>
ghostVars == <<lastOp, gPre, gDrag, gEdit, gSym, gCopy, gScen, gClock,
              steps>>
vars == <<storeVars, temporalVars, moduleVars, envVars, ghostVars>>

(***************************************************************************)
(* Snapshot codec.                                                         *)
(***************************************************************************)
\* _partialize drops the volatile node fields; of the fields the model
\* keeps, that is `selected`.
stripNode(n) ==
    [id |-> n.id, type |-> n.type, position |-> n.position,
     zIndex |-> n.zIndex, data |-> n.data]

partialize(ns, es) == [nodes |-> SeqMap(ns, stripNode), edges |-> es]

\* A node of a snapshot put back into the store: `selected` is undefined.
unstripNode(n) ==
    [id |-> n.id, type |-> n.type, position |-> n.position,
     zIndex |-> n.zIndex, data |-> n.data, selected |-> FALSE]

(***************************************************************************)
(* The temporal middleware (zundo), as configured at useFlowStore.js       *)
(* 733-738: partialize = _partialize, equality = equal serialisation,      *)
(* limit = UNDO_LIMIT.                                                     *)
(***************************************************************************)
\* Variant: the pushed state replaces the history.
handleSetReplacing(past, pastState) == <<pastState>>

\* _handleSet: drop the oldest entry of a full past, push the state that
\* was current before the set.
handleSet(past, pastState) ==
    (IF Len(past) >= UNDO_LIMIT THEN Tail(past) ELSE past) \o <<pastState>>

\* A set() that pushes and leaves the redo stack as it was.
temporalSetKeepingFuture(tracking, past, future, before, after) ==
    IF tracking /\ before # after
    THEN [past |-> handleSet(past, before), future |-> future]
    ELSE [past |-> past, future |-> future]

\* A set() without the equality option: every tracked set() pushes.
temporalSetAlways(tracking, past, future, before, after) ==
    IF tracking
    THEN [past |-> handleSet(past, before), future |-> <<>>]
    ELSE [past |-> past, future |-> future]

\* What a set() of the wrapped store does to the history: nothing while
\* tracking is paused or when the partialized state did not change.
temporalSet(tracking, past, future, before, after) ==
    IF tracking /\ before # after
    THEN [past |-> handleSet(past, before), future |-> <<>>]
    ELSE [past |-> past, future |-> future]

\* An undo that takes the oldest entry instead of the newest.
undoOldest(ns, es, past, future) ==
    IF Len(past) = 0
    THEN [nodes |-> ns, edges |-> es, past |-> past, future |-> future]
    ELSE [nodes |-> SeqMap(past[1].nodes, unstripNode),
          edges |-> past[1].edges,
          past |-> SubSeq(past, 1, Len(past) - 1),
          future |-> future \o <<partialize(ns, es)>>]

\* temporal.getState().undo(): no-op on an empty past; otherwise the top
\* of past becomes the store's {nodes, edges} (set without tracking) and
\* the partialized current state goes onto future.
undo(ns, es, past, future) ==
    IF Len(past) = 0
    THEN [nodes |-> ns, edges |-> es, past |-> past, future |-> future]
    ELSE LET next == past[Len(past)]
         IN [nodes |-> SeqMap(next.nodes, unstripNode),
             edges |-> next.edges,
             past |-> SubSeq(past, 1, Len(past) - 1),
             future |-> future \o <<partialize(ns, es)>>]

\* temporal.getState().redo(): symmetric, consuming from future.
redo(ns, es, past, future) ==
    IF Len(future) = 0
    THEN [nodes |-> ns, edges |-> es, past |-> past, future |-> future]
    ELSE LET next == future[Len(future)]
         IN [nodes |-> SeqMap(next.nodes, unstripNode),
             edges |-> next.edges,
             past |-> past \o <<partialize(ns, es)>>,
             future |-> SubSeq(future, 1, Len(future) - 1)]

\* A clear() that leaves the stack as it was.
clearNothing(stack) == stack

\* temporal.getState().clear()
clear(stack) == <<>>

\* Array.prototype.slice(-k): the last k elements; slice(-0) is the whole.
sliceLast(s, k) ==
    IF k = 0 \/ Len(s) <= k THEN s ELSE SubSeq(s, Len(s) - k + 1, Len(s))

\* A drag-release commit without slice(): [...pastStates, snap]
dragCommitUntrimmed(past, snap) == past \o <<snap>>

\* The drag-release commit: [...pastStates.slice(-(UNDO_LIMIT - 1)), snap]
dragCommit(past, snap) == sliceLast(past, UNDO_LIMIT - 1) \o <<snap>>

\* Variant: a timer callback that drops the snapshot.
editCommitDropping(past, snap) == past

\* The edit-timer commit, the same expression in the timer callback.
editCommit(past, snap) == sliceLast(past, UNDO_LIMIT - 1) \o <<snap>>

\* `if (isDragging && !_preDragSnapshot)`: the first drag frame captures.
preDragCapture(held, isDragging, snap) ==
    IF isDragging /\ held = Null THEN Some(snap) ELSE held

\* An edit capture without the `if`: every call captures.
editCaptureAlways(held, snap) == Some(snap)

\* `if (!_editSnapshot)`: the first edit of a burst captures.
editCapture(held, snap) == IF held = Null THEN Some(snap) ELSE held

\* What _save() writes to localStorage.
saved(ns, es, fn, fv, ps) ==
    Some([nodes |-> ns, edges |-> es, fileName |-> fn, fileVersion |-> fv,
          presets |-> ps])

(***************************************************************************)
(* Observation.  These variables record what a run did; no operation of    *)
(* the store reads them.                                                   *)
(***************************************************************************)
\* The operations the spec calls discrete.
DiscreteOps ==
    {"addPersonNode", "addSectionNode", "removeNode", "onConnect", "addEdge",
     "removeEdge", "updateEdgeData", "pasteClipboard", "applyPreset",
     "autoLayout"}
\* Operations on the selection, the clipboard and the preset library.
ViewOps == {"onNodesChange:select", "copySelected", "addPreset",
            "addPreset:null"}
\* The names of updateNodeData calls.
EditOps == {"updateNodeData", "updateNodeData:color", "updateNodeData:missing"}
\* Callbacks that only write localStorage.
SaveOps == {"saveLazy", "saveSoon"}

Min(a, b) == IF a < b THEN a ELSE b
Max(a, b) == IF a > b THEN a ELSE b

\* 1 when the step changed pastStates, else 0.
PushedNow == IF pastStates' # pastStates THEN 1 ELSE 0

\* The drag gesture: the snapshot of the graph before its first event,
\* the number of drag events (k, counted up to 2), the number of its
\* onNodesChange calls that changed pastStates (pushes, counted up to 2),
\* and whether the release call has returned (done).  Any other operation
\* of the user ends the observation; timer callbacks do not.
gDragNext(op) ==
    IF op = "onNodesChange:drag" THEN
        IF pointer = Null
        THEN Some([snap0 |-> partialize(nodes, edges), k |-> 1,
                   pushes |-> PushedNow, done |-> FALSE])
        ELSE IF gDrag # Null /\ ~gDrag[1].done
        THEN Some([gDrag[1] EXCEPT !.k = Min(@ + 1, 2),
                                   !.pushes = Min(@ + PushedNow, 2)])
        ELSE Null
    ELSE IF op = "onNodesChange:release" THEN
        IF gDrag # Null /\ ~gDrag[1].done
        THEN Some([gDrag[1] EXCEPT !.done = TRUE,
                                   !.pushes = Min(@ + PushedNow, 2)])
        ELSE Null
    ELSE IF op \in SaveOps \cup {"editTimer"} THEN
        IF gDrag # Null /\ ~gDrag[1].done THEN gDrag ELSE Null
    ELSE Null

\* The edit burst: the history and the snapshot before its first
\* updateNodeData call, the number of calls (k, counted up to 2), whether
\* its timer has fired (done), and, for a burst that starts right after
\* the previous one was committed, the previous burst's start (first).
gEditNext(op) ==
    IF op \in EditOps THEN
        IF editSnapshot = Null
        THEN Some([past0 |-> pastStates,
                   snap0 |-> partialize(nodes, edges),
                   k |-> 1, done |-> FALSE,
                   first |-> IF gEdit # Null /\ gEdit[1].done
                                  /\ gEdit[1].first = Null
                             THEN Some([past0 |-> gEdit[1].past0,
                                        snap0 |-> gEdit[1].snap0])
                             ELSE Null])
        ELSE IF gEdit # Null /\ ~gEdit[1].done
        THEN Some([gEdit[1] EXCEPT !.k = Min(@ + 1, 2)])
        ELSE Null
    ELSE IF op = "editTimer" THEN
        IF gEdit # Null /\ ~gEdit[1].done
        THEN Some([gEdit[1] EXCEPT !.done = TRUE])
        ELSE Null
    ELSE IF op \in SaveOps THEN gEdit
    ELSE Null

\* The mutation sequence: the partialized graph before the first discrete
\* mutation made on an empty history with no gesture pending and after
\* each mutation since (trace), how many of them are undone (depth) and
\* the largest depth reached (deep).  The observation ends when anything
\* else happens, when a mutation follows an undo, or when there are more
\* mutations than the history holds.  Selecting, copying and saving a
\* preset do not end it as long as they leave the stripped graph and the
\* history alone.
gSymNext(op) ==
    IF op \in {"resetFlow", "loadFlow"} THEN
        IF preDragSnapshot' = Null /\ editSnapshot' = Null /\ isTracking'
        THEN Some([trace |-> <<partialize(nodes', edges')>>,
                   depth |-> 0, deep |-> 0])
        ELSE Null
    ELSE IF gSym = Null THEN Null
    ELSE IF op \in SaveOps THEN gSym
    ELSE IF op \in ViewOps THEN
        IF partialize(nodes', edges') = partialize(nodes, edges)
           /\ pastStates' = pastStates /\ futureStates' = futureStates
        THEN gSym ELSE Null
    ELSE IF op \in DiscreteOps THEN
        IF partialize(nodes', edges') = partialize(nodes, edges) THEN gSym
        ELSE IF gSym[1].depth = 0 /\ Len(gSym[1].trace) <= UNDO_LIMIT
        THEN Some([gSym[1] EXCEPT
                      !.trace = Append(@, partialize(nodes', edges'))])
        ELSE Null
    ELSE IF op = "undo" THEN
        Some([gSym[1] EXCEPT
                 !.depth = Min(@ + 1, Len(gSym[1].trace) - 1),
                 !.deep = Max(@, Min(gSym[1].depth + 1,
                                     Len(gSym[1].trace) - 1))])
    ELSE IF op = "redo" THEN
        Some([gSym[1] EXCEPT !.depth = Max(@ - 1, 0)])
    ELSE Null

\* The last copy: the positions of the selected nodes when copySelected
\* was called with a selection (at), the number of pasteClipboard calls
\* since (n), and whether the last paste came right after the copy
\* (direct).  A copySelected call without selection ends the observation.
gCopyNext(op) ==
    IF op = "copySelected" THEN
        IF \E i \in 1..Len(nodes) : nodes[i].selected
        THEN Some([at |-> SeqMap(SelectSeq(nodes, LAMBDA n : n.selected),
                                 LAMBDA n : n.position),
                   n |-> 0, direct |-> FALSE])
        ELSE Null
    ELSE IF op = "pasteClipboard" /\ gCopy # Null THEN
        Some([gCopy[1] EXCEPT !.n = @ + 1,
                              !.direct = (lastOp = "copySelected")])
    ELSE gCopy

\* The example scenario, call by call: addPersonNode({x:100,y:100}) and
\* addPersonNode({x:300,y:100}) on the empty graph, onConnect from the
\* bottom of the first node to the top of the second, autoLayout(), then
\* undo() three times.  ScenarioCall(k, op) holds when the call just made
\* is the k-th call of the scenario.
ScenarioCall(k, op) ==
    CASE k = 1 -> /\ op = "addPersonNode"
                  /\ Len(nodes) = 0 /\ Len(edges) = 0
                  /\ Len(nodes') = 1 /\ nodes'[1].position = Pos(100, 100)
      [] k = 2 -> /\ op = "addPersonNode"
                  /\ Len(nodes') = 2 /\ nodes'[2].position = Pos(300, 100)
      [] k = 3 -> /\ op = "onConnect"
                  /\ Len(edges') = 1
                  /\ edges'[1].source = nodes[1].id
                  /\ edges'[1].target = nodes[2].id
                  /\ edges'[1].sourceHandle = "source-bottom"
                  /\ edges'[1].targetHandle = "target-top"
      [] k = 4 -> op = "autoLayout"
      [] k \in 5..ScenarioOps -> op = "undo"
      [] OTHER -> FALSE

\* The number of calls of the scenario made so far, as long as nothing
\* else was called since construction.
gScenNext(op) ==
    IF gScen # Null /\ ScenarioCall(gScen[1] + 1, op)
    THEN Some(gScen[1] + 1)
    ELSE Null

\* The capture times.  When it is kept (a run that starts with a clock),
\* the clock holds, for each entry of pastStates, the number of the call
\* during which that snapshot was taken, and the same for the pre-drag
\* and the pre-edit snapshot (0: none held).  The stamps go through the
\* same pushes, trims and pops as the snapshots they belong to.
gClockNext(op) ==
    IF gClock = Null THEN Null
    ELSE LET c == gClock[1]
             now == steps + 1
             setPushed == isTracking
                          /\ partialize(nodes, edges)
                                 # partialize(nodes', edges')
             afterSet == IF setPushed THEN handleSet(c.past, now)
                         ELSE c.past
         IN Some([past |->
                      IF op = "undo"
                      THEN SubSeq(c.past, 1, Len(pastStates'))
                      ELSE IF op = "redo"
                      THEN (IF pastStates' = pastStates THEN c.past
                            ELSE c.past \o <<now>>)
                      ELSE IF op = "editTimer"
                      THEN (IF editSnapshot # Null
                            THEN editCommit(c.past, c.edit) ELSE c.past)
                      ELSE IF op = "onNodesChange:release"
                      THEN (IF preDragSnapshot # Null
                            THEN dragCommit(afterSet, c.drag) ELSE afterSet)
                      ELSE IF op = "onNodesChange:drag"
                      THEN (IF preDragSnapshot = Null THEN c.past
                            ELSE afterSet)
                      ELSE IF op \in EditOps
                      THEN (IF editSnapshot = Null THEN c.past
                            ELSE afterSet)
                      ELSE IF pastStates' = <<>> THEN <<>>
                      ELSE afterSet,
                  drag |-> IF preDragSnapshot' = Null THEN 0
                           ELSE IF preDragSnapshot = Null THEN now
                           ELSE c.drag,
                  edit |-> IF editSnapshot' = Null THEN 0
                           ELSE IF editSnapshot = Null THEN now
                           ELSE c.edit])

Observe(op) ==
    /\ steps < MaxOps
    /\ steps' = steps + 1
    /\ lastOp' = op
    /\ gPre' = [pastLen |-> Len(pastStates), futLen |-> Len(futureStates)]
    /\ gDrag' = gDragNext(op)
    /\ gEdit' = gEditNext(op)
    /\ gSym' = gSymNext(op)
    /\ gCopy' = gCopyNext(op)
    /\ gScen' = gScenNext(op)
    /\ gClock' = gClockNext(op)

(***************************************************************************)
(* The store: helpers of the operations.                                   *)
(***************************************************************************)
\* The node addPersonNode builds.
newPerson(id, position) ==
    [id |-> id, type |-> "person", position |-> position,
     zIndex |-> PERSON_Z_INDEX, data |-> [name |-> DEFAULT_PERSON_NAME],
     selected |-> FALSE]

\* The node addSectionNode builds.
newSection(id, position) ==
    [id |-> id, type |-> "section", position |-> position,
     zIndex |-> SECTION_Z_INDEX, data |-> [title |-> DEFAULT_SECTION_TITLE],
     selected |-> FALSE]

\* The edge onConnect builds from React Flow's connection.
newEdge(id, connection) ==
    [id |-> id, source |-> connection.source, target |-> connection.target,
     sourceHandle |-> IF connection.sourceHandle = "" THEN "source-bottom"
                      ELSE connection.sourceHandle,
     targetHandle |-> IF connection.targetHandle = "" THEN "target-top"
                      ELSE connection.targetHandle,
     data |-> [color |-> DEFAULT_EDGE_COLOR, dashed |-> FALSE],
     stroke |-> DEFAULT_EDGE_COLOR, markerColor |-> DEFAULT_EDGE_COLOR]

\* reactflow's addEdge: no second edge between the same handles.  (It also
\* refuses an edge without a source or target id; every connection of the
\* model carries both.)
rfAddEdge(edge, es) ==
    IF \E i \in 1..Len(es) :
                /\ es[i].source = edge.source
                /\ es[i].target = edge.target
                /\ es[i].sourceHandle = edge.sourceHandle
                /\ es[i].targetHandle = edge.targetHandle
    THEN es
    ELSE Append(es, edge)

\* reactflow's applyNodeChanges for the changes the model delivers: a
\* position change sets the position it carries (a release carries none),
\* a select change sets the flag; a change for an unknown id is ignored.
applyNodeChange(c, ns) ==
    SeqMap(ns, LAMBDA n :
        IF n.id # c.id THEN n
        ELSE IF c.type = "position"
        THEN (IF c.position = Null THEN n
              ELSE [n EXCEPT !.position = c.position[1]])
        ELSE [n EXCEPT !.selected = c.selected])

RECURSIVE applyNodeChanges(_, _)
applyNodeChanges(changes, ns) ==
    IF changes = <<>> THEN ns
    ELSE applyNodeChanges(Tail(changes), applyNodeChange(Head(changes), ns))

\* The zIndex remap onNodesChange applies to every node.
remapZIndex(ns) ==
    SeqMap(ns, LAMBDA n :
        IF n.type = "section"
        THEN [n EXCEPT !.zIndex = IF n.selected THEN SECTION_SELECTED_Z_INDEX
                                  ELSE SECTION_Z_INDEX]
        ELSE IF n.type = "person" THEN [n EXCEPT !.zIndex = PERSON_Z_INDEX]
        ELSE n)

\* _migrateNodeZIndex
migrateNodeZIndex(ns) ==
    SeqMap(ns, LAMBDA n :
        IF n.type = "person" /\ n.zIndex # PERSON_Z_INDEX
        THEN [n EXCEPT !.zIndex = PERSON_Z_INDEX]
        ELSE IF n.type = "section" /\ n.zIndex > SECTION_Z_INDEX
        THEN [n EXCEPT !.zIndex = IF n.selected THEN SECTION_SELECTED_Z_INDEX
                                  ELSE SECTION_Z_INDEX]
        ELSE n)

\* _migrateEdges
migrateEdges(es) ==
    SeqMap(es, LAMBDA e :
        [e EXCEPT !.sourceHandle = IF @ = "" THEN "source-bottom" ELSE @,
                  !.targetHandle = IF @ = "" THEN "target-top" ELSE @])

\* An edge filter that looks at the source only.
removeNodeEdgesBySource(es, nodeId) ==
    SelectSeq(es, LAMBDA e : e.source # nodeId)

\* removeNode's two filters.
removeNodeNodes(ns, nodeId) == SelectSeq(ns, LAMBDA n : n.id # nodeId)
removeNodeEdges(es, nodeId) ==
    SelectSeq(es, LAMBDA e : e.source # nodeId /\ e.target # nodeId)

\* updateNodeData's map: merge newData over the node's data.
mergeNodeData(ns, nodeId, newData) ==
    SeqMap(ns, LAMBDA n :
        IF n.id = nodeId THEN [n EXCEPT !.data = newData @@ n.data] ELSE n)

\* updateEdgeData's map.
mergeEdgeData(es, edgeId, newData) ==
    SeqMap(es, LAMBDA e :
        IF e.id # edgeId THEN e
        ELSE LET updated == [e EXCEPT !.data = newData @@ e.data]
             IN IF "color" \in DOMAIN newData
                THEN [updated EXCEPT !.stroke = newData.color,
                                     !.markerColor = newData.color]
                ELSE updated)

(***************************************************************************)
(* A set({nodes, edges}) of the wrapped store, and _save().                *)
(***************************************************************************)
SetGraph(ns, es) ==
    LET h == temporalSet(isTracking, pastStates, futureStates,
                         partialize(nodes, edges), partialize(ns, es))
    IN /\ nodes' = ns
       /\ edges' = es
       /\ pastStates' = h.past
       /\ futureStates' = h.future

Save == storage' = saved(nodes', edges', fileName', fileVersion', presets')

Init ==
    /\ nodes = <<>> /\ edges = <<>>
    /\ fileName = DEFAULT_FILE_NAME /\ fileVersion = 1 /\ presets = <<>>
    /\ pastStates = <<>> /\ futureStates = <<>> /\ isTracking = TRUE
    /\ clipboard = [nodes |-> <<>>, edges |-> <<>>]
    /\ preDragSnapshot = Null /\ editSnapshot = Null /\ editTimer = FALSE
    /\ storage = Null /\ saveTimers = {}
    /\ nextId = 1
    /\ pointer = Null
    /\ lastOp = "init"
    /\ gPre = [pastLen |-> 0, futLen |-> 0]
    /\ gDrag = Null /\ gEdit = Null
    /\ gSym = Some([trace |-> <<partialize(<<>>, <<>>)>>, depth |-> 0,
                    deep |-> 0])
    /\ gCopy = Null
    /\ gScen = Some(0)
    /\ gClock = Null
    /\ steps = 0

(***************************************************************************)
(* React Flow callbacks.                                                   *)
(***************************************************************************)
\* onNodesChange(changes)
onNodesChange(changes, op) ==
    LET isDragging == \E i \in 1..Len(changes) :
                         changes[i].type = "position"
                         /\ changes[i].dragging = Some(TRUE)
        dragEnded == \E i \in 1..Len(changes) :
                        changes[i].type = "position"
                        /\ changes[i].dragging = Some(FALSE)
        held == preDragCapture(preDragSnapshot, isDragging,
                               partialize(nodes, edges))
        tracking == IF isDragging /\ preDragSnapshot = Null THEN FALSE
                    ELSE isTracking
        updatedNodes == remapZIndex(applyNodeChanges(changes, nodes))
        h == temporalSet(tracking, pastStates, futureStates,
                         partialize(nodes, edges),
                         partialize(updatedNodes, edges))
    IN /\ nodes' = updatedNodes
       /\ UNCHANGED <<edges, fileName, fileVersion, presets>>
       /\ IF dragEnded /\ held # Null
          THEN /\ isTracking' = TRUE
               /\ pastStates' = dragCommit(h.past, held[1])
               /\ futureStates' = <<>>
               /\ preDragSnapshot' = Null
               /\ Save
               /\ UNCHANGED saveTimers
          ELSE /\ isTracking' = tracking
               /\ pastStates' = h.past
               /\ futureStates' = h.future
               /\ preDragSnapshot' = held
               /\ saveTimers' = IF isDragging THEN saveTimers
                                ELSE saveTimers \cup {"saveLazy"}
               /\ UNCHANGED storage
       /\ UNCHANGED <<clipboard, editSnapshot, editTimer, nextId>>
       /\ Observe(op)

PositionChange(id, position, dragging) ==
    [type |-> "position", id |-> id, position |-> position,
     dragging |-> Some(dragging), selected |-> FALSE]

SelectChange(id, selected) ==
    [type |-> "select", id |-> id, position |-> Null, dragging |-> Null,
     selected |-> selected]

\* React Flow reports a frame of a pointer drag: the first one starts the
\* drag session, the later ones belong to the node that is being dragged.
DragFrame ==
    \E i \in 1..Len(nodes), p \in DragPositions :
        /\ pointer = Null \/ pointer = Some(nodes[i].id)
        /\ pointer' = Some(nodes[i].id)
        /\ onNodesChange(<<PositionChange(nodes[i].id, Some(p), TRUE)>>,
                         "onNodesChange:drag")

\* React Flow reports the release of the drag: dragging = false, no position.
DragRelease ==
    /\ pointer # Null
    /\ pointer' = Null
    /\ onNodesChange(<<PositionChange(pointer[1], Null, FALSE)>>,
                     "onNodesChange:release")

\* React Flow reports that a node was selected or deselected.
SelectNode ==
    \E i \in 1..Len(nodes) :
        /\ UNCHANGED pointer
        /\ onNodesChange(<<SelectChange(nodes[i].id, ~nodes[i].selected)>>,
                         "onNodesChange:select")

\* onConnect(connection): React Flow connects the source handle of a person
\* card to a target handle of a person card.
onConnect(connection) ==
    LET edge == newEdge(nextId, connection)
        es == rfAddEdge(edge, edges)
    IN /\ nextId <= MaxId
       /\ SetGraph(nodes, es)
       /\ nextId' = IF es = edges THEN nextId ELSE nextId + 1
       /\ UNCHANGED <<fileName, fileVersion, presets, isTracking>>
       /\ Save
       /\ UNCHANGED <<clipboard, preDragSnapshot, editSnapshot, editTimer,
                      saveTimers, pointer>>
       /\ Observe(IF {connection.source, connection.target} \subseteq NodeIds(nodes)
                  THEN "onConnect" ELSE "onConnect:missing")

TargetHandles == {"target-top", "target-left", "target-right"}

PersonIds(ns) == {ns[i].id : i \in {j \in 1..Len(ns) : ns[j].type = "person"}}

Connections ==
    {[source |-> s, target |-> t, sourceHandle |-> "source-bottom",
      targetHandle |-> th] :
        s \in PersonIds(nodes), t \in PersonIds(nodes), th \in TargetHandles}

Connect == \E c \in Connections : onConnect(c)

\* Ids that uuidv4() never handed out and no file carries.
UnknownIds == {-9}

\* Connections with an endpoint that is no node of the graph.
MissingConnections ==
    {c \in {[source |-> s, target |-> t, sourceHandle |-> "source-bottom",
             targetHandle |-> "target-top"] :
                s \in NodeIds(nodes) \cup UnknownIds,
                t \in NodeIds(nodes) \cup UnknownIds} :
        c.source \in UnknownIds \/ c.target \in UnknownIds}

\* onConnect called with an endpoint that is missing.
ConnectMissing == \E c \in MissingConnections : onConnect(c)

(***************************************************************************)
(* Nodes.                                                                  *)
(***************************************************************************)
addPersonNode(position) ==
    /\ nextId <= MaxId
    /\ SetGraph(Append(nodes, newPerson(nextId, position)), edges)
    /\ nextId' = nextId + 1
    /\ UNCHANGED <<fileName, fileVersion, presets, isTracking>>
    /\ Save
    /\ UNCHANGED <<clipboard, preDragSnapshot, editSnapshot, editTimer,
                   saveTimers, pointer>>
    /\ Observe("addPersonNode")

addSectionNode(position) ==
    /\ nextId <= MaxId
    /\ SetGraph(Append(nodes, newSection(nextId, position)), edges)
    /\ nextId' = nextId + 1
    /\ UNCHANGED <<fileName, fileVersion, presets, isTracking>>
    /\ Save
    /\ UNCHANGED <<clipboard, preDragSnapshot, editSnapshot, editTimer,
                   saveTimers, pointer>>
    /\ Observe("addSectionNode")

removeNode(nodeId) ==
    /\ SetGraph(removeNodeNodes(nodes, nodeId), removeNodeEdges(edges, nodeId))
    /\ UNCHANGED <<fileName, fileVersion, presets, isTracking>>
    /\ Save
    /\ UNCHANGED <<clipboard, preDragSnapshot, editSnapshot, editTimer,
                   saveTimers, nextId, pointer>>
    /\ Observe(IF nodeId \in NodeIds(nodes) THEN "removeNode"
               ELSE "removeNode:missing")

\* The data fields that hold a colour.
ColorFields == {"bgColor", "borderColor", "color"}

\* How the observation names an updateNodeData call.
editOp(nodeId, newData) ==
    IF nodeId \notin NodeIds(nodes) THEN "updateNodeData:missing"
    ELSE IF DOMAIN newData \cap ColorFields # {} THEN "updateNodeData:color"
    ELSE "updateNodeData"

updateNodeData(nodeId, newData) ==
    LET held == editCapture(editSnapshot, partialize(nodes, edges))
        tracking == IF editSnapshot = Null THEN FALSE ELSE isTracking
        ns == mergeNodeData(nodes, nodeId, newData)
        h == temporalSet(tracking, pastStates, futureStates,
                         partialize(nodes, edges), partialize(ns, edges))
    IN /\ nodes' = ns
       /\ pastStates' = h.past
       /\ futureStates' = h.future
       /\ isTracking' = tracking
       /\ editSnapshot' = held
       /\ editTimer' = TRUE
       /\ UNCHANGED <<edges, fileName, fileVersion, presets>>
       /\ UNCHANGED <<clipboard, preDragSnapshot, storage, saveTimers,
                      nextId, pointer>>
       /\ Observe(editOp(nodeId, newData))

\* The callback of the timer updateNodeData arms (EDIT_COMMIT_DELAY after
\* the last call).
EditTimerFire ==
    /\ editTimer
    /\ editTimer' = FALSE
    /\ IF editSnapshot # Null
       THEN /\ isTracking' = TRUE
            /\ pastStates' = editCommit(pastStates, editSnapshot[1])
            /\ futureStates' = <<>>
            /\ editSnapshot' = Null
       ELSE UNCHANGED <<isTracking, pastStates, futureStates, editSnapshot>>
    /\ UNCHANGED storeVars
    /\ Save
    /\ UNCHANGED <<clipboard, preDragSnapshot, saveTimers, nextId, pointer>>
    /\ Observe("editTimer")

\* A person card edits its name, a section its title.
EditNode ==
    \E i \in 1..Len(nodes), v \in EditValues :
        updateNodeData(nodes[i].id,
                       IF nodes[i].type = "person" THEN [name |-> v]
                       ELSE [title |-> v])

\* What the colour buttons send: a colour of the palette.
NodeColors == {"#e0e7ff"}

\* A person card changes its fill colour, a section its colour.
ColorNode ==
    \E i \in 1..Len(nodes), c \in NodeColors :
        updateNodeData(nodes[i].id,
                       IF nodes[i].type = "person" THEN [bgColor |-> c]
                       ELSE [color |-> c])

\* updateNodeData called with an id that matches no node.
EditMissing ==
    \E id \in UnknownIds, v \in EditValues : updateNodeData(id, [name |-> v])

RemoveNode == \E i \in 1..Len(nodes) : removeNode(nodes[i].id)

\* removeNode called with an id that matches no node.
RemoveNodeMissing == \E id \in UnknownIds : removeNode(id)

AddPersonNode == \E p \in AddPositions : addPersonNode(p)

AddSectionNode == \E p \in AddPositions : addSectionNode(p)

\* The positions of the example scenario.
ScenarioPositions == {Pos(100, 100), Pos(300, 100)}

AddPersonAt == \E p \in ScenarioPositions : addPersonNode(p)

(***************************************************************************)
(* Edges.                                                                  *)
(***************************************************************************)
\* addEdge(edge): appends the edge as given, with a fresh id when it has
\* none (`edge.id || uuidv4()`; id 0 stands for no id).
addEdge(edge) ==
    /\ nextId <= MaxId
    /\ SetGraph(nodes, Append(edges, [edge EXCEPT !.id = IF @ = 0 THEN nextId
                                                          ELSE @]))
    /\ nextId' = nextId + 1
    /\ UNCHANGED <<fileName, fileVersion, presets, isTracking>>
    /\ Save
    /\ UNCHANGED <<clipboard, preDragSnapshot, editSnapshot, editTimer,
                   saveTimers, pointer>>
    /\ Observe(IF {edge.source, edge.target} \subseteq NodeIds(nodes)
               THEN "addEdge" ELSE "addEdge:missing")

removeEdgeEdges(es, edgeId) == SelectSeq(es, LAMBDA e : e.id # edgeId)

removeEdge(edgeId) ==
    /\ SetGraph(nodes, removeEdgeEdges(edges, edgeId))
    /\ UNCHANGED <<fileName, fileVersion, presets, isTracking>>
    /\ Save
    /\ UNCHANGED <<clipboard, preDragSnapshot, editSnapshot, editTimer,
                   saveTimers, nextId, pointer>>
    /\ Observe(IF edgeId \in NodeIds(edges) THEN "removeEdge"
               ELSE "removeEdge:missing")

updateEdgeData(edgeId, newData) ==
    /\ SetGraph(nodes, mergeEdgeData(edges, edgeId, newData))
    /\ UNCHANGED <<fileName, fileVersion, presets, isTracking>>
    /\ Save
    /\ UNCHANGED <<clipboard, preDragSnapshot, editSnapshot, editTimer,
                   saveTimers, nextId, pointer>>
    /\ Observe(IF edgeId \in NodeIds(edges) THEN "updateEdgeData"
               ELSE "updateEdgeData:missing")

\* What the edge menu sends: a colour of the palette, or the dashed style.
EdgeDataInputs == {[color |-> "#ef4444"], [dashed |-> TRUE]}

\* A caller of addEdge passes an edge shaped like onConnect's, without id;
\* the modelled callers connect the bottom of a card to the top of a card.
AddEdge ==
    \E c \in {d \in Connections : d.targetHandle = "target-top"} :
        addEdge(newEdge(0, c))

\* addEdge called with an endpoint that is missing.
AddEdgeMissing == \E c \in MissingConnections : addEdge(newEdge(0, c))

RemoveEdge == \E i \in 1..Len(edges) : removeEdge(edges[i].id)

\* removeEdge and updateEdgeData called with an id that matches no edge.
RemoveEdgeMissing == \E id \in UnknownIds : removeEdge(id)

UpdateEdgeDataMissing ==
    \E id \in UnknownIds, d \in EdgeDataInputs : updateEdgeData(id, d)

UpdateEdgeData ==
    \E i \in 1..Len(edges), d \in EdgeDataInputs :
        updateEdgeData(edges[i].id, d)

(***************************************************************************)
(* Undo / redo (App.jsx handleUndo / handleRedo, and the shortcuts).       *)
(***************************************************************************)
handleUndo ==
    LET r == undo(nodes, edges, pastStates, futureStates)
    IN /\ nodes' = r.nodes
       /\ edges' = r.edges
       /\ pastStates' = r.past
       /\ futureStates' = r.future
       /\ saveTimers' = saveTimers \cup {"saveSoon"}
       /\ UNCHANGED <<fileName, fileVersion, presets, isTracking>>
       /\ UNCHANGED <<clipboard, preDragSnapshot, editSnapshot, editTimer,
                      storage, nextId, pointer>>
       /\ Observe("undo")

handleRedo ==
    LET r == redo(nodes, edges, pastStates, futureStates)
    IN /\ nodes' = r.nodes
       /\ edges' = r.edges
       /\ pastStates' = r.past
       /\ futureStates' = r.future
       /\ saveTimers' = saveTimers \cup {"saveSoon"}
       /\ UNCHANGED <<fileName, fileVersion, presets, isTracking>>
       /\ UNCHANGED <<clipboard, preDragSnapshot, editSnapshot, editTimer,
                      storage, nextId, pointer>>
       /\ Observe("redo")

(***************************************************************************)
(* Persistence.                                                            *)
(***************************************************************************)
\* The debounced _saveLazy callback.
SaveLazyFire ==
    /\ "saveLazy" \in saveTimers
    /\ saveTimers' = saveTimers \ {"saveLazy"}
    /\ UNCHANGED <<storeVars, temporalVars, moduleVars, nextId, pointer>>
    /\ Save
    /\ Observe("saveLazy")

\* `fileName || DEFAULT_FILE_NAME`: an empty name is falsy.
nameOrDefault(name) == IF name = "" THEN DEFAULT_FILE_NAME ELSE name

\* `n || 1`: 0 is falsy, every other number is kept.
numberOrOne(n) == IF n = 0 THEN 1 ELSE n

\* `parseInt(meta.version, 10) || 1`.  A file's version is the decimal
\* text exportFlow wrote with String(fileVersion): Some(n) stands for the
\* text of the integer n, Null for an absent or non-numeric text, which
\* parseInt turns into NaN, a falsy value.
parseVersion(text) == IF text = Null THEN 1 ELSE numberOrOne(text[1])

\* The setTimeout(..., 0) callback of handleUndo / handleRedo.
SaveSoonFire ==
    /\ "saveSoon" \in saveTimers
    /\ saveTimers' = saveTimers \ {"saveSoon"}
    /\ UNCHANGED <<storeVars, temporalVars, moduleVars, nextId, pointer>>
    /\ Save
    /\ Observe("saveSoon")

\* setFileVersion(fileVersion): Math.max(1, Math.floor(fileVersion)), for
\* an integer argument.
setFileVersion(v) ==
    /\ fileVersion' = Max(1, v)
    /\ SetGraph(nodes, edges)
    /\ UNCHANGED <<fileName, presets, isTracking>>
    /\ Save
    /\ UNCHANGED <<moduleVars, saveTimers, nextId, pointer>>
    /\ Observe("setFileVersion")

\* The values typed into the version field.
VersionInputs == {-3, 0, 1, 4}

SetFileVersion == \E v \in VersionInputs : setFileVersion(v)

incrementVersion ==
    /\ fileVersion' = fileVersion + 1
    /\ SetGraph(nodes, edges)
    /\ UNCHANGED <<fileName, presets, isTracking>>
    /\ Save
    /\ UNCHANGED <<moduleVars, saveTimers, nextId, pointer>>
    /\ Observe("incrementVersion")

decrementVersion ==
    IF fileVersion > 1
    THEN /\ fileVersion' = fileVersion - 1
         /\ SetGraph(nodes, edges)
         /\ UNCHANGED <<fileName, presets, isTracking>>
         /\ Save
         /\ UNCHANGED <<moduleVars, saveTimers, nextId, pointer>>
         /\ Observe("decrementVersion")
    ELSE /\ UNCHANGED <<storeVars, temporalVars, moduleVars, envVars>>
         /\ Observe("decrementVersion")

\* exportFlow(): builds the payload from the store and hands it to the
\* browser as a download; the store is only read.
exportFlow ==
    /\ UNCHANGED <<storeVars, temporalVars, moduleVars, envVars>>
    /\ Observe("exportFlow")

loadFlow ==
    /\ IF storage # Null
       THEN LET raw == storage[1]
                ns == migrateNodeZIndex(raw.nodes)
                es == migrateEdges(raw.edges)
                h == temporalSet(isTracking, pastStates, futureStates,
                                 partialize(nodes, edges), partialize(ns, es))
            IN /\ nodes' = ns
               /\ edges' = es
               /\ fileName' = nameOrDefault(raw.fileName)
               /\ fileVersion' = numberOrOne(raw.fileVersion)
               /\ presets' = raw.presets
               /\ pastStates' = clear(h.past)
               /\ futureStates' = clear(h.future)
       ELSE /\ UNCHANGED storeVars
            /\ pastStates' = clear(pastStates)
            /\ futureStates' = clear(futureStates)
    /\ UNCHANGED <<isTracking, moduleVars, envVars>>
    /\ Observe("loadFlow")

\* Variant: a reset that also empties the clipboard.
resetFlowEmptyingClipboard ==
    LET h == temporalSet(isTracking, pastStates, futureStates,
                         partialize(nodes, edges), partialize(<<>>, <<>>))
    IN /\ nodes' = <<>>
       /\ edges' = <<>>
       /\ fileName' = DEFAULT_FILE_NAME
       /\ fileVersion' = 1
       /\ presets' = <<>>
       /\ storage' = Null
       /\ pastStates' = clear(h.past)
       /\ futureStates' = clear(h.future)
       /\ clipboard' = [nodes |-> <<>>, edges |-> <<>>]
       /\ UNCHANGED <<isTracking, preDragSnapshot, editSnapshot, editTimer,
                      saveTimers, nextId, pointer>>
       /\ Observe("resetFlow")

resetFlow ==
    LET h == temporalSet(isTracking, pastStates, futureStates,
                         partialize(nodes, edges), partialize(<<>>, <<>>))
    IN /\ nodes' = <<>>
       /\ edges' = <<>>
       /\ fileName' = DEFAULT_FILE_NAME
       /\ fileVersion' = 1
       /\ presets' = <<>>
       /\ storage' = Null
       /\ pastStates' = clear(h.past)
       /\ futureStates' = clear(h.future)
       /\ UNCHANGED <<isTracking, moduleVars, saveTimers, nextId, pointer>>
       /\ Observe("resetFlow")

\* Files a user may pick: an empty diagram, and a diagram with one person
\* (its id, -1, was made by another session).
ImportFiles ==
    {[nodes |-> <<>>, edges |-> <<>>, presets |-> <<>>,
      meta |-> [fileName |-> DEFAULT_FILE_NAME, version |-> Some(1)]],
     [nodes |-> <<newPerson(-1, Pos(100, 100))>>, edges |-> <<>>,
      presets |-> <<>>,
      meta |-> [fileName |-> "Equipe", version |-> Some(2)]]}

\* A file with three persons in a chain, left to right.
TeamFiles ==
    {[nodes |-> <<newPerson(-1, Pos(100, 100)), newPerson(-2, Pos(300, 100)),
                  newPerson(-3, Pos(500, 100))>>,
      edges |-> <<newEdge(-4, [source |-> -1, target |-> -2,
                               sourceHandle |-> "source-bottom",
                               targetHandle |-> "target-top"]),
                  newEdge(-5, [source |-> -2, target |-> -3,
                               sourceHandle |-> "source-bottom",
                               targetHandle |-> "target-left"])>>,
      presets |-> <<>>,
      meta |-> [fileName |-> "Equipe", version |-> Some(2)]]}

\* An edge of a chart file: from the bottom of s to the handle th of t.
ChartEdge(id, s, t, th) ==
    newEdge(id, [source |-> s, target |-> t, sourceHandle |-> "source-bottom",
                 targetHandle |-> th])

ChartFile(ns, es) ==
    [nodes |-> ns, edges |-> es, presets |-> <<>>,
     meta |-> [fileName |-> "Equipe", version |-> Some(2)]]

\* Organisation charts read from files.  SideTree: a person with an
\* assistant on each side, one of them with a subordinate.  Triangle: an
\* assistant whose subordinate E also reports to another subordinate.
\* Stacks: two assistants on each side.  Hierarchy: a section and four
\* persons, the last reporting to two managers.  Loop: an assistant and
\* a subordinate reporting to each other.
ChartFiles ==
    {ChartFile(<<newPerson(-1, Pos(100, 100)), newPerson(-2, Pos(300, 100)),
                 newPerson(-3, Pos(300, 300)), newPerson(-4, Pos(0, 100))>>,
               <<ChartEdge(-11, -1, -2, "target-left"),
                 ChartEdge(-12, -2, -3, "target-top"),
                 ChartEdge(-13, -1, -4, "target-right")>>),
     ChartFile(<<newPerson(-1, Pos(100, 100)), newPerson(-2, Pos(300, 100)),
                 newPerson(-3, Pos(300, 300)), newPerson(-4, Pos(300, 500))>>,
               <<ChartEdge(-11, -1, -2, "target-left"),
                 ChartEdge(-12, -2, -3, "target-top"),
                 ChartEdge(-13, -2, -4, "target-top"),
                 ChartEdge(-14, -3, -4, "target-top")>>),
     ChartFile(<<newPerson(-1, Pos(100, 100)), newPerson(-2, Pos(300, 100)),
                 newPerson(-3, Pos(300, 300)), newPerson(-4, Pos(0, 100)),
                 newPerson(-5, Pos(0, 300))>>,
               <<ChartEdge(-11, -1, -2, "target-left"),
                 ChartEdge(-12, -1, -3, "target-left"),
                 ChartEdge(-13, -1, -4, "target-right"),
                 ChartEdge(-14, -1, -5, "target-right")>>),
     ChartFile(<<newPerson(-1, Pos(100, 100)), newSection(-6, Pos(0, 0)),
                 newPerson(-2, Pos(100, 300)), newPerson(-3, Pos(300, 300)),
                 newPerson(-4, Pos(100, 500))>>,
               <<ChartEdge(-11, -1, -2, "target-top"),
                 ChartEdge(-12, -1, -3, "target-top"),
                 ChartEdge(-13, -2, -4, "target-top"),
                 ChartEdge(-14, -3, -4, "target-top")>>),
     ChartFile(<<newPerson(-1, Pos(100, 100)), newPerson(-2, Pos(300, 100)),
                 newPerson(-3, Pos(300, 300))>>,
               <<ChartEdge(-11, -1, -2, "target-left"),
                 ChartEdge(-12, -2, -3, "target-top"),
                 ChartEdge(-13, -3, -2, "target-top")>>)}

\* Array.isArray(nodes) && Array.isArray(edges).  A payload is a record;
\* a field that is no list is a field the record does not have.
shapeOk(data) == {"nodes", "edges"} \subseteq DOMAIN data

\* `data.meta || {}`
metaOf(data) ==
    IF "meta" \in DOMAIN data THEN data.meta
    ELSE [fileName |-> "", version |-> Null]

\* Variant: the imported presets are added to the library.
importedPresetsAdded(data) ==
    presets \o (IF "presets" \in DOMAIN data THEN data.presets ELSE <<>>)

\* `data.presets || []`
importedPresets(data) ==
    IF "presets" \in DOMAIN data THEN data.presets ELSE <<>>

\* importFlow's reader.onload for a file that JSON.parse accepts;
\* confirmed is the answer to window.confirm, asked only when the shape
\* check passed.
importFlow(data, confirmed) ==
    IF ~shapeOk(data)
    THEN /\ UNCHANGED <<storeVars, temporalVars, moduleVars, envVars>>
         /\ Observe("importFlow:invalid")
    ELSE /\ IF confirmed
            THEN /\ SetGraph(migrateNodeZIndex(data.nodes),
                             migrateEdges(data.edges))
                 /\ fileName' = nameOrDefault(metaOf(data).fileName)
                 /\ fileVersion' = parseVersion(metaOf(data).version)
                 /\ presets' = importedPresets(data)
                 /\ Save
            ELSE UNCHANGED <<storeVars, pastStates, futureStates, storage>>
         /\ UNCHANGED <<isTracking, moduleVars, saveTimers, nextId, pointer>>
         /\ Observe(IF ~confirmed THEN "importFlow:declined"
                    ELSE IF "presets" \in DOMAIN data THEN "importFlow"
                    ELSE "importFlow:nopresets")

\* importFlow's reader.onload for a file that JSON.parse rejects: the
\* catch branch.
importUnreadable ==
    /\ UNCHANGED <<storeVars, temporalVars, moduleVars, envVars>>
    /\ Observe("importFlow:unreadable")

\* Payloads: without nodes, without edges, a file of an older version
\* (one person, no presets, no meta), and a file with one person.
Payloads ==
    {[edges |-> <<>>, presets |-> <<>>],
     [nodes |-> <<newPerson(-1, Pos(100, 100))>>, presets |-> <<>>],
     [nodes |-> <<newPerson(-1, Pos(100, 100))>>, edges |-> <<>>],
     [nodes |-> <<newPerson(-2, Pos(300, 100))>>, edges |-> <<>>,
      presets |-> <<>>, meta |-> [fileName |-> "Equipe", version |-> Some(2)]]}

ImportPayload == \E f \in Payloads, c \in BOOLEAN : importFlow(f, c)

ImportFlow == \E f \in ImportFiles, c \in BOOLEAN : importFlow(f, c)

\* Files whose meta.version is negative, zero, absent or 3.
VersionFiles ==
    {[nodes |-> <<>>, edges |-> <<>>, presets |-> <<>>,
      meta |-> [fileName |-> "Equipe", version |-> Some(v)]] :
        v \in {-2, 0, 3}}
    \cup {[nodes |-> <<>>, edges |-> <<>>, presets |-> <<>>,
           meta |-> [fileName |-> "", version |-> Null]]}

ImportVersioned == \E f \in VersionFiles : importFlow(f, TRUE)

\* The user imports a team file and confirms.
ImportTeam == \E f \in TeamFiles : importFlow(f, TRUE)

\* A file with three connected persons, the third below and to the left
\* of the first two.
GroupFiles ==
    {ChartFile(<<newPerson(-1, Pos(120, 80)), newPerson(-2, Pos(170, 80)),
                 newPerson(-3, Pos(60, 200))>>,
               <<ChartEdge(-11, -1, -2, "target-left"),
                 ChartEdge(-12, -2, -3, "target-top")>>)}

ImportGroup == \E f \in GroupFiles : importFlow(f, TRUE)

\* The user imports an organisation chart and confirms.
ImportChart == \E f \in ChartFiles : importFlow(f, TRUE)

(***************************************************************************)
(* Copy / paste.                                                           *)
(***************************************************************************)
selectedNodes(ns) == SelectSeq(ns, LAMBDA n : n.selected)

\* The edges with both endpoints in the selection.
connectedEdges(ns, es) ==
    SelectSeq(es, LAMBDA e : e.source \in NodeIds(selectedNodes(ns))
                             /\ e.target \in NodeIds(selectedNodes(ns)))

copySelected ==
    /\ clipboard' = IF Len(selectedNodes(nodes)) = 0 THEN clipboard
                    ELSE [nodes |-> selectedNodes(nodes),
                          edges |-> connectedEdges(nodes, edges)]
    /\ UNCHANGED <<storeVars, temporalVars, preDragSnapshot, editSnapshot,
                   editTimer, envVars>>
    /\ Observe("copySelected")

\* idMap of pasteClipboard / applyPreset: the i-th copied node gets the
\* i-th fresh id.
idMapOf(ns, firstId) ==
    [old \in NodeIds(ns) |->
        firstId - 1 + CHOOSE i \in 1..Len(ns) :
                         /\ ns[i].id = old
                         /\ \A j \in (i + 1)..Len(ns) : ns[j].id # old]

\* Variant: the copies keep the ids of the nodes they were made from.
insertedNodesStoredIds(ns, firstId, dx, dy) ==
    [i \in 1..Len(ns) |->
        [ns[i] EXCEPT !.position = Pos(@.x + dx, @.y + dy),
                      !.selected = Len(ns) > 1]]

\* Variant: the copies keep the positions they were given.
insertedNodesUnshifted(ns, firstId, dx, dy) ==
    [i \in 1..Len(ns) |->
        [ns[i] EXCEPT !.id = firstId + i - 1,
                      !.selected = Len(ns) > 1]]

\* The nodes inserted: fresh ids, positions shifted, selected iff multi.
insertedNodes(ns, firstId, dx, dy) ==
    [i \in 1..Len(ns) |->
        [ns[i] EXCEPT !.id = firstId + i - 1,
                      !.position = Pos(@.x + dx, @.y + dy),
                      !.selected = Len(ns) > 1]]

\* Variant: the copied connections keep their original endpoints.
insertedEdgesUnmapped(es, idMap, firstId) ==
    [j \in 1..Len(es) |-> [es[j] EXCEPT !.id = firstId + j - 1]]

\* The edges inserted: fresh ids, endpoints through idMap
\* (`idMap[e.source] || e.source`).
insertedEdges(es, idMap, firstId) ==
    [j \in 1..Len(es) |->
        [es[j] EXCEPT !.id = firstId + j - 1,
                      !.source = IF @ \in DOMAIN idMap THEN idMap[@] ELSE @,
                      !.target = IF @ \in DOMAIN idMap THEN idMap[@] ELSE @]]

deselectAll(ns) == SeqMap(ns, LAMBDA n : [n EXCEPT !.selected = FALSE])

pasteClipboard ==
    IF Len(clipboard.nodes) = 0
    THEN /\ UNCHANGED <<storeVars, temporalVars, moduleVars, envVars>>
         /\ Observe("pasteClipboard")
    ELSE LET newNodes == insertedNodes(clipboard.nodes, nextId,
                                       PASTE_OFFSET, PASTE_OFFSET)
             newEdges == insertedEdges(clipboard.edges,
                                       idMapOf(clipboard.nodes, nextId),
                                       nextId + Len(clipboard.nodes))
             existing == IF Len(clipboard.nodes) > 1 THEN deselectAll(nodes)
                         ELSE nodes
         IN /\ nextId + Len(clipboard.nodes) + Len(clipboard.edges) - 1
                   <= MaxId
            /\ SetGraph(existing \o newNodes, edges \o newEdges)
            /\ nextId' = nextId + Len(clipboard.nodes) + Len(clipboard.edges)
            /\ clipboard' =
                   [clipboard EXCEPT !.nodes =
                       SeqMap(@, LAMBDA n :
                           [n EXCEPT !.position =
                               Pos(@.x + PASTE_OFFSET, @.y + PASTE_OFFSET)])]
            /\ UNCHANGED <<fileName, fileVersion, presets, isTracking>>
            /\ Save
            /\ UNCHANGED <<preDragSnapshot, editSnapshot, editTimer,
                           saveTimers, pointer>>
            /\ Observe("pasteClipboard")

(***************************************************************************)
(* Presets.                                                                *)
(***************************************************************************)
SeqMin(s, F(_)) ==
    CHOOSE m \in {F(s[i]) : i \in 1..Len(s)} :
        \A i \in 1..Len(s) : m <= F(s[i])

\* Variant: positions relative to the first selected node.
newPresetFromFirst(id, ns, es, ordinal) ==
    LET selected == selectedNodes(ns)
    IN [id |-> id, name |-> <<"Preset", ordinal>>,
        nodes |-> SeqMap(selected, LAMBDA n :
                     [n EXCEPT !.position = Pos(@.x - selected[1].position.x,
                                                @.y - selected[1].position.y),
                               !.selected = FALSE]),
        edges |-> connectedEdges(ns, es)]

\* The preset addPreset builds from the selection (createdAt is left out).
newPreset(id, ns, es, ordinal) ==
    LET selected == selectedNodes(ns)
        minX == SeqMin(selected, LAMBDA n : n.position.x)
        minY == SeqMin(selected, LAMBDA n : n.position.y)
    IN [id |-> id, name |-> <<"Preset", ordinal>>,
        nodes |-> SeqMap(selected, LAMBDA n :
                     [n EXCEPT !.position = Pos(@.x - minX, @.y - minY),
                               !.selected = FALSE]),
        edges |-> connectedEdges(ns, es)]

addPreset ==
    IF Len(selectedNodes(nodes)) = 0
    THEN /\ UNCHANGED <<storeVars, temporalVars, moduleVars, envVars>>
         /\ Observe("addPreset:null")
    ELSE /\ nextId <= MaxId
         /\ presets' = Append(presets,
                              newPreset(nextId, nodes, edges, Len(presets) + 1))
         /\ nextId' = nextId + 1
         /\ SetGraph(nodes, edges)
         /\ UNCHANGED <<fileName, fileVersion, isTracking>>
         /\ Save
         /\ UNCHANGED <<moduleVars, saveTimers, pointer>>
         /\ Observe("addPreset")

\* baseX = 100 + Math.random() * 100, baseY = 100 + Math.random() * 80.
PresetBases == {Pos(100, 100)}

applyPreset(presetId, base) ==
    LET found == SelectSeq(presets, LAMBDA p : p.id = presetId)
    IN IF Len(found) = 0 \/ Len(found[1].nodes) = 0
       THEN /\ UNCHANGED <<storeVars, temporalVars, moduleVars, envVars>>
            /\ Observe(IF Len(found) = 0 THEN "applyPreset:missing"
                       ELSE "applyPreset")
       ELSE LET preset == found[1]
                newNodes == insertedNodes(preset.nodes, nextId, base.x, base.y)
                newEdges == insertedEdges(preset.edges,
                                          idMapOf(preset.nodes, nextId),
                                          nextId + Len(preset.nodes))
                existing == IF Len(preset.nodes) > 1 THEN deselectAll(nodes)
                            ELSE nodes
            IN /\ nextId + Len(preset.nodes) + Len(preset.edges) - 1 <= MaxId
               /\ SetGraph(existing \o newNodes, edges \o newEdges)
               /\ nextId' = nextId + Len(preset.nodes) + Len(preset.edges)
               /\ UNCHANGED <<fileName, fileVersion, presets, isTracking>>
               /\ Save
               /\ UNCHANGED <<moduleVars, saveTimers, pointer>>
               /\ Observe("applyPreset")

ApplyPreset ==
    \E i \in 1..Len(presets), b \in PresetBases : applyPreset(presets[i].id, b)

\* applyPreset called with an id that matches no preset.
ApplyPresetMissing ==
    \E id \in UnknownIds, b \in PresetBases : applyPreset(id, b)

\* renamePreset(presetId, name): a set() of the presets list, then _save.
renamePreset(presetId, name) ==
    /\ presets' = SeqMap(presets, LAMBDA p :
                     IF p.id = presetId THEN [p EXCEPT !.name = name] ELSE p)
    /\ SetGraph(nodes, edges)
    /\ UNCHANGED <<fileName, fileVersion, isTracking>>
    /\ Save
    /\ UNCHANGED <<moduleVars, saveTimers, nextId, pointer>>
    /\ Observe(IF presetId \in NodeIds(presets) THEN "renamePreset"
               ELSE "renamePreset:missing")

\* removePreset(presetId)
removePreset(presetId) ==
    /\ presets' = SelectSeq(presets, LAMBDA p : p.id # presetId)
    /\ SetGraph(nodes, edges)
    /\ UNCHANGED <<fileName, fileVersion, isTracking>>
    /\ Save
    /\ UNCHANGED <<moduleVars, saveTimers, nextId, pointer>>
    /\ Observe(IF presetId \in NodeIds(presets) THEN "removePreset"
               ELSE "removePreset:missing")

\* The names a user gives a preset.
PresetNames == {<<"Equipe">>}

RenamePreset ==
    \E i \in 1..Len(presets), n \in PresetNames : renamePreset(presets[i].id, n)

RemovePreset == \E i \in 1..Len(presets) : removePreset(presets[i].id)

\* renamePreset and removePreset called with an id that matches no preset.
RenamePresetMissing ==
    \E id \in UnknownIds, n \in PresetNames : renamePreset(id, n)

RemovePresetMissing == \E id \in UnknownIds : removePreset(id)

(***************************************************************************)
(* Auto-layout.                                                            *)
(***************************************************************************)
personNodesOf(ns) == SelectSeq(ns, LAMBDA n : n.type = "person")
sectionNodesOf(ns) == SelectSeq(ns, LAMBDA n : n.type = "section")

isSideHandle(th) == th = "target-left" \/ th = "target-right"

\* Edges between two persons, split by the target handle.
treeEdgesOf(ns, es) ==
    SelectSeq(es, LAMBDA e : e.source \in PersonIds(ns)
                             /\ e.target \in PersonIds(ns)
                             /\ ~isSideHandle(e.targetHandle))
sideEdgesOf(ns, es) ==
    SelectSeq(es, LAMBDA e : e.source \in PersonIds(ns)
                             /\ e.target \in PersonIds(ns)
                             /\ isSideHandle(e.targetHandle))

Targets(es) == SeqMap(es, LAMBDA e : e.target)

\* treeChildrenMap[nodeId] || []
treeChildren(tes, nodeId) ==
    Targets(SelectSeq(tes, LAMBDA e : e.source = nodeId))

\* dagre.layout(g) on the person cards and the tree edges.  dagre is an
\* external library; the model places the cards in layers: the rank of a
\* card is the length of the longest tree path that ends in it, the cards
\* of a rank stand left to right in list order, nodesep apart, the ranks
\* are stacked ranksep apart, inside the margins.  dims gives each card's
\* width and height; the result maps each id to the centre of its card.
RECURSIVE dagreRank(_, _, _)
dagreRank(tes, v, seen) ==
    LET parents == {tes[i].source : i \in {j \in 1..Len(tes) :
                        tes[j].target = v /\ tes[j].source \notin seen \cup {v}}}
    IN IF parents = {} THEN 0
       ELSE 1 + CHOOSE m \in {dagreRank(tes, p, seen \cup {v}) : p \in parents} :
                   \A p \in parents : dagreRank(tes, p, seen \cup {v}) <= m

SetMax(S) == CHOOSE m \in S : \A x \in S : x <= m

RECURSIVE SumTo(_, _)
SumTo(f, n) == IF n = 0 THEN 0 ELSE f[n] + SumTo(f, n - 1)

dagreLayout(persons, tes, dims) ==
    LET rank == [i \in 1..Len(persons) |-> dagreRank(tes, persons[i].id, {})]
        \* the cards of rank r that stand before card i
        before(i) == {j \in 1..(i - 1) : rank[j] = rank[i]}
        rankHeight(r) ==
            SetMax({0} \cup {dims[persons[j].id].height :
                                j \in {k \in 1..Len(persons) : rank[k] = r}})
        xLeft(i) ==
            LAYOUT_MARGIN_X
            + SumTo([k \in 1..Len(persons) |->
                        IF k \in before(i)
                        THEN dims[persons[k].id].width + LAYOUT_NODE_SEP
                        ELSE 0], Len(persons))
        yTop(r) ==
            LAYOUT_MARGIN_Y
            + SumTo([q \in 1..r |-> rankHeight(q - 1) + LAYOUT_RANK_SEP], r)
    IN [id \in NodeIds(persons) |->
          LET i == CHOOSE k \in 1..Len(persons) : persons[k].id = id
          IN Pos(xLeft(i) + dims[id].width \div 2,
                 yTop(rank[i]) + rankHeight(rank[i]) \div 2)]

\* getTreeDescendants(nodeId, visited): the children of nodeId, then the
\* descendants of each child; visited is shared by the whole traversal.
RECURSIVE getTreeDescendants(_, _, _)
RECURSIVE descendInto(_, _, _, _)
getTreeDescendants(tes, nodeId, visited) ==
    IF nodeId \in visited THEN [result |-> <<>>, visited |-> visited]
    ELSE LET children == treeChildren(tes, nodeId)
             below == descendInto(tes, children, 1, visited \cup {nodeId})
         IN [result |-> children \o below.result, visited |-> below.visited]
descendInto(tes, children, i, visited) ==
    IF i > Len(children) THEN [result |-> <<>>, visited |-> visited]
    ELSE LET d == getTreeDescendants(tes, children[i], visited)
             rest == descendInto(tes, children, i + 1, d.visited)
         IN [result |-> d.result \o rest.result, visited |-> rest.visited]

\* descendants.forEach: each entry of the list is shifted by (dx, dy).
RECURSIVE shiftEach(_, _, _, _)
shiftEach(posMap, ids, dx, dy) ==
    IF ids = <<>> THEN posMap
    ELSE shiftEach([posMap EXCEPT ![Head(ids)] = Pos(@.x + dx, @.y + dy)],
                   Tail(ids), dx, dy)

\* repositionChild(childId, newPos)
repositionChild(posMap, tes, childId, newPos) ==
    shiftEach([posMap EXCEPT ![childId] = newPos],
              getTreeDescendants(tes, childId, {}).result,
              newPos.x - posMap[childId].x, newPos.y - posMap[childId].y)

\* The breadth-first processing order, from the persons without an
\* incoming edge from a person; the unvisited persons are appended.
RECURSIVE bfsOrder(_, _, _, _, _)
bfsOrder(queue, visited, order, ns, es) ==
    IF queue = <<>> THEN order
    ELSE IF Head(queue) \in visited
    THEN bfsOrder(Tail(queue), visited, order, ns, es)
    ELSE bfsOrder(Tail(queue) \o
                    Targets(SelectSeq(es, LAMBDA e :
                        /\ e.source = Head(queue)
                        /\ e.target \in PersonIds(ns)
                        /\ e.target \notin visited \cup {Head(queue)})),
                  visited \cup {Head(queue)}, Append(order, Head(queue)),
                  ns, es)

processOrderOf(ns, es) ==
    LET persons == personNodesOf(ns)
        roots == SelectSeq(persons, LAMBDA n :
                    ~\E i \in 1..Len(es) : es[i].target = n.id
                                           /\ es[i].source \in PersonIds(ns))
        reached == bfsOrder(SeqMap(roots, LAMBDA n : n.id), {}, <<>>, ns, es)
    IN reached \o SeqMap(SelectSeq(persons,
                                   LAMBDA n : n.id \notin Range(reached)),
                         LAMBDA n : n.id)

\* Variant: every child of a side goes to the first slot.
RECURSIVE placeSideUnstacked(_, _, _, _, _, _)
placeSideUnstacked(posMap, tes, children, i, x, parentY) ==
    IF i > Len(children) THEN posMap
    ELSE placeSideUnstacked(
            repositionChild(posMap, tes, children[i],
                Pos(x, parentY + PERSON_NODE_HEIGHT + SIDE_START_Y)),
            tes, children, i + 1, x, parentY)

\* One side of one parent: the i-th child (from 0) goes to x, stacked.
RECURSIVE placeSide(_, _, _, _, _, _)
placeSide(posMap, tes, children, i, x, parentY) ==
    IF i > Len(children) THEN posMap
    ELSE placeSide(
            repositionChild(posMap, tes, children[i],
                Pos(x, parentY + PERSON_NODE_HEIGHT + SIDE_START_Y
                       + (i - 1) * (PERSON_NODE_HEIGHT + SIDE_STACK_GAP_Y))),
            tes, children, i + 1, x, parentY)

\* processOrder.forEach: the right list (target-right, placed to the left
\* of the parent), then the left list (target-left, placed to the right).
RECURSIVE placeSideChildren(_, _, _, _)
placeSideChildren(posMap, order, tes, ses) ==
    IF order = <<>> THEN posMap
    ELSE LET nid == Head(order)
             parentPos == posMap[nid]
             right == Targets(SelectSeq(ses, LAMBDA e :
                         e.source = nid /\ e.targetHandle # "target-left"))
             left == Targets(SelectSeq(ses, LAMBDA e :
                         e.source = nid /\ e.targetHandle = "target-left"))
             afterRight == placeSide(posMap, tes, right, 1,
                                     parentPos.x - SIDE_OFFSET_X, parentPos.y)
             afterLeft == placeSide(afterRight, tes, left, 1,
                                    parentPos.x + SIDE_OFFSET_X, parentPos.y)
         IN placeSideChildren(afterLeft, Tail(order), tes, ses)

\* Variant: a layered pass that starts from the cards' current places.
layeredPosDrifting(ns, es) ==
    [id \in NodeIds(personNodesOf(ns)) |->
        LET n == personNodesOf(ns)[CHOOSE i \in 1..Len(personNodesOf(ns)) :
                                      personNodesOf(ns)[i].id = id]
        IN Pos(n.position.x + LAYOUT_MARGIN_X, n.position.y + LAYOUT_MARGIN_Y)]

\* posMap after the dagre pass: the top-left corner of each person card.
layeredPos(ns, es) ==
    LET persons == personNodesOf(ns)
        tes == treeEdgesOf(ns, es)
        ses == sideEdgesOf(ns, es)
        dims == [id \in NodeIds(persons) |->
                    IF id \in Range(Targets(ses)) /\ id \notin Range(Targets(tes))
                    THEN [width |-> 1, height |-> 1]
                    ELSE [width |-> PERSON_NODE_WIDTH,
                          height |-> PERSON_NODE_HEIGHT]]
        centres == dagreLayout(persons, tes, dims)
    IN [id \in NodeIds(persons) |->
           Pos(centres[id].x - PERSON_NODE_WIDTH \div 2,
               centres[id].y - PERSON_NODE_HEIGHT \div 2)]

\* Variant: only the laid-out persons are written back.
laidOutPersonsOnly(ns, es) ==
    LET posMap == placeSideChildren(layeredPos(ns, es), processOrderOf(ns, es),
                                    treeEdgesOf(ns, es), sideEdgesOf(ns, es))
    IN SeqMap(personNodesOf(ns), LAMBDA n : [n EXCEPT !.position = posMap[n.id]])

\* The node list autoLayout writes: the sections, then the persons at
\* their new positions.
laidOut(ns, es) ==
    LET persons == personNodesOf(ns)
        tes == treeEdgesOf(ns, es)
        ses == sideEdgesOf(ns, es)
        posMap == placeSideChildren(layeredPos(ns, es),
                                    processOrderOf(ns, es), tes, ses)
    IN sectionNodesOf(ns) \o
       SeqMap(persons, LAMBDA n : [n EXCEPT !.position = posMap[n.id]])

autoLayout ==
    IF Len(nodes) = 0
    THEN /\ UNCHANGED <<storeVars, temporalVars, moduleVars, envVars>>
         /\ Observe("autoLayout")
    ELSE /\ SetGraph(laidOut(nodes, edges), edges)
         /\ UNCHANGED <<fileName, fileVersion, presets, isTracking>>
         /\ Save
         /\ UNCHANGED <<moduleVars, saveTimers, nextId, pointer>>
         /\ Observe("autoLayout")

(***************************************************************************)
(* The application.                                                        *)
(***************************************************************************)
Next ==
    \/ DragFrame
    \/ DragRelease
    \/ SelectNode
    \/ Connect
    \/ AddPersonNode
    \/ AddSectionNode
    \/ RemoveNode
    \/ EditNode
    \/ EditTimerFire
    \/ AddEdge
    \/ RemoveEdge
    \/ UpdateEdgeData
    \/ autoLayout
    \/ copySelected
    \/ pasteClipboard
    \/ addPreset
    \/ ApplyPreset
    \/ handleUndo
    \/ handleRedo
    \/ SaveLazyFire
    \/ SaveSoonFire
    \/ loadFlow
    \/ resetFlow
    \/ ImportFlow

Spec == Init /\ [][Next]_vars


(***************************************************************************)
(* The history under gestures: node creation and removal, text edits and   *)
(* their timer, drags, undo/redo, reset, load and import.                  *)
(***************************************************************************)
NextHistory ==
    \/ AddPersonNode
    \/ RemoveNode
    \/ EditNode
    \/ EditTimerFire
    \/ DragFrame
    \/ DragRelease
    \/ handleUndo
    \/ handleRedo
    \/ loadFlow
    \/ resetFlow
    \/ ImportFlow

SpecHistory == Init /\ [][NextHistory]_vars

(***************************************************************************)
(* The discrete mutations, with the selection, the clipboard and the       *)
(* presets they work on, and undo/redo.                                    *)
(***************************************************************************)
NextDiscrete ==
    \/ AddPersonNode
    \/ AddSectionNode
    \/ RemoveNode
    \/ Connect
    \/ AddEdge
    \/ RemoveEdge
    \/ UpdateEdgeData
    \/ SelectNode
    \/ copySelected
    \/ pasteClipboard
    \/ addPreset
    \/ ApplyPreset
    \/ autoLayout
    \/ handleUndo
    \/ handleRedo

SpecDiscrete == Init /\ [][NextDiscrete]_vars


(***************************************************************************)
(* Properties.                                                             *)
(***************************************************************************)
\* A history with one more entry s, at most UNDO_LIMIT entries long.
Committed(past, s) ==
    IF Len(past) >= UNDO_LIMIT THEN Append(Tail(past), s) ELSE Append(past, s)

IsPrefix(a, b) == Len(a) <= Len(b) /\ a = SubSeq(b, 1, Len(a))

Stripped == partialize(nodes, edges)

\* C1: when the release call of a drag that started with no drag in
\* progress has returned, the calls of the drag have changed pastStates
\* exactly once, the newest entry is the snapshot of the graph before the
\* first drag event, and futureStates is empty.
C1_DragOneEntry ==
    (gDrag # Null /\ gDrag[1].done) =>
        /\ gDrag[1].pushes = 1
        /\ pastStates # <<>>
        /\ pastStates[Len(pastStates)] = gDrag[1].snap0
        /\ futureStates = <<>>

\* C2: while a burst of updateNodeData calls that started with no burst
\* pending is running, pastStates is what it was before the first call;
\* when its timer has fired, pastStates is that history with exactly one
\* more entry, the snapshot taken before the first call, however many
\* calls there were; a second burst right after the first one makes it
\* two entries.
C2_EditBurstOneEntry ==
    gEdit # Null =>
        IF ~gEdit[1].done
        THEN pastStates = gEdit[1].past0
        ELSE /\ pastStates = Committed(gEdit[1].past0, gEdit[1].snap0)
             /\ gEdit[1].first # Null =>
                  pastStates =
                    Committed(Committed(gEdit[1].first[1].past0,
                                        gEdit[1].first[1].snap0),
                              gEdit[1].snap0)

\* C2's case: the second of two consecutive bursts, made of two calls, has
\* been committed, and the entry differs from the graph shown.
C2_Witness ==
    /\ gEdit # Null /\ gEdit[1].done /\ gEdit[1].k = 2
    /\ gEdit[1].first # Null
    /\ gEdit[1].snap0 # Stripped
    /\ gEdit[1].snap0 # gEdit[1].first[1].snap0

\* C3: every call of a discrete operation that changes the stripped graph
\* pushes exactly one entry, the snapshot before the call, onto pastStates
\* and empties futureStates.
C3_DiscreteCommits ==
    [][(lastOp' \in DiscreteOps /\ partialize(nodes', edges') # Stripped) =>
          /\ pastStates' = Committed(pastStates, Stripped)
          /\ futureStates' = <<>>]_vars

\* C4: when resetFlow or loadFlow returns, pastStates and futureStates are
\* empty, whatever they held, and an undo issued right then changes
\* neither nodes nor edges.
C4_ResetLoadClear ==
    [][/\ lastOp' \in {"resetFlow", "loadFlow"} =>
            pastStates' = <<>> /\ futureStates' = <<>>
       /\ (lastOp \in {"resetFlow", "loadFlow"} /\ lastOp' = "undo") =>
            nodes' = nodes /\ edges' = edges]_vars

\* C4's case: loadFlow has replaced the graph while both stacks held
\* entries.
C4_Witness ==
    /\ lastOp = "loadFlow"
    /\ gPre.pastLen > 0 /\ gPre.futLen > 0
    /\ nodes # <<>>
    /\ pastStates = <<>> /\ futureStates = <<>>

\* C5: when importFlow has replaced the diagram (valid file, confirmed),
\* pastStates and futureStates are empty.
C5_ImportClears ==
    lastOp = "importFlow" => pastStates = <<>> /\ futureStates = <<>>

\* C6: when resetFlow or loadFlow returns, no pre-edit snapshot, no edit
\* timer and no pre-drag snapshot is pending, and capture is not paused.
C6_BatchingCleared ==
    lastOp \in {"resetFlow", "loadFlow"} =>
        /\ editSnapshot = Null
        /\ ~editTimer
        /\ preDragSnapshot = Null
        /\ isTracking

\* C7: during a sequence of discrete mutations made from an empty history
\* with no gesture pending, followed by undos and redos, the stripped
\* graph is the state after the last mutation that is not undone: with d
\* mutations undone it is the state held before the d-th last mutation,
\* and after as many redos it is the state before the first undo.
C7_StackSymmetry ==
    gSym # Null =>
        Stripped = gSym[1].trace[Len(gSym[1].trace) - gSym[1].depth]

\* C7's case: two or more mutations, all of them undone, then all redone.
C7_Witness ==
    /\ gSym # Null
    /\ lastOp = "redo"
    /\ Len(gSym[1].trace) >= 3
    /\ gSym[1].deep = Len(gSym[1].trace) - 1
    /\ gSym[1].depth = 0
    /\ gSym[1].trace[1] # gSym[1].trace[2]
    /\ gSym[1].trace[2] # gSym[1].trace[3]

\* A step that commits: not an undo, redo, reset or load, and pastStates
\* changed.
CommitStep ==
    /\ lastOp' \notin {"undo", "redo", "resetFlow", "loadFlow"}
    /\ pastStates' # pastStates

\* C8: pastStates and futureStates never hold more than UNDO_LIMIT
\* entries, and a commit onto a full past drops the oldest entry and keeps
\* the other UNDO_LIMIT - 1 in order below the new one.
C8_HistoryBounded ==
    /\ Len(pastStates) <= UNDO_LIMIT /\ Len(futureStates) <= UNDO_LIMIT
    /\ [][/\ Len(pastStates') <= UNDO_LIMIT
          /\ Len(futureStates') <= UNDO_LIMIT
          /\ (CommitStep /\ Len(pastStates) = UNDO_LIMIT) =>
                /\ Len(pastStates') = UNDO_LIMIT
                /\ SubSeq(pastStates', 1, UNDO_LIMIT - 1) = Tail(pastStates)]_vars

\* C8's case: a drag release has committed onto a full past.
C8_Witness ==
    /\ lastOp = "onNodesChange:release"
    /\ gPre.pastLen = UNDO_LIMIT
    /\ gDrag # Null /\ gDrag[1].done /\ gDrag[1].pushes = 1
    /\ Len(pastStates) = UNDO_LIMIT
    /\ pastStates[UNDO_LIMIT] = gDrag[1].snap0
    /\ pastStates[1] # pastStates[UNDO_LIMIT]

\* C9: every step that pushes onto pastStates (a discrete mutation, a drag
\* release that holds a snapshot, an edit timer that holds a snapshot)
\* leaves futureStates empty; only undo adds to futureStates; redo only
\* removes from it.
C9_FutureCleared ==
    [][/\ CommitStep => futureStates' = <<>>
       /\ (lastOp' = "onNodesChange:release" /\ preDragSnapshot # Null) =>
            futureStates' = <<>>
       /\ (lastOp' = "editTimer" /\ editSnapshot # Null) =>
            futureStates' = <<>>
       /\ lastOp' # "undo" => IsPrefix(futureStates', futureStates)
       /\ lastOp' = "redo" =>
            futureStates' = SubSeq(futureStates, 1, Len(futureStates) - 1)]_vars

\* C9's case: an edit timer has committed while futureStates held an
\* entry.
C9_Witness ==
    /\ lastOp = "editTimer"
    /\ gEdit # Null /\ gEdit[1].done
    /\ gPre.futLen > 0
    /\ pastStates # <<>> /\ futureStates = <<>>

\* The endpoints of every connection are nodes of the graph.
EndpointsExist ==
    \A i \in 1..Len(edges) :
        edges[i].source \in NodeIds(nodes) /\ edges[i].target \in NodeIds(nodes)

\* C10: removeNode(id) removes the node id and the connections that touch
\* it and nothing else, and in every state reached through the discrete
\* operations, undo and redo the endpoints of every connection exist.
C10_ReferentialIntegrity ==
    /\ []EndpointsExist
    /\ [][lastOp' = "removeNode" =>
            \E id \in NodeIds(nodes) :
                /\ nodes' = SelectSeq(nodes, LAMBDA n : n.id # id)
                /\ edges' = SelectSeq(edges, LAMBDA e :
                                e.source # id /\ e.target # id)]_vars

\* C10's case: removeNode has removed a node that was the target of a
\* connection, together with that connection, and kept another connection.
C10_Witness ==
    /\ lastOp = "removeNode"
    /\ pastStates # <<>>
    /\ LET before == pastStates[Len(pastStates)]
       IN /\ Len(before.nodes) = Len(nodes) + 1
          /\ Len(before.edges) > Len(edges)
          /\ \E i \in 1..Len(before.edges) :
                /\ before.edges[i].target \notin NodeIds(nodes)
                /\ before.edges[i].source \in NodeIds(nodes)
    /\ Len(edges) >= 1


(***************************************************************************)
(* Calls that name a node, a connection or a preset that does not exist,   *)
(* on graphs built by adding, connecting, selecting and saving presets.    *)
(***************************************************************************)
NextCalls ==
    \/ AddPersonNode
    \/ Connect
    \/ SelectNode
    \/ addPreset
    \/ ConnectMissing
    \/ AddEdgeMissing
    \/ RemoveNodeMissing
    \/ EditMissing
    \/ RemoveEdgeMissing
    \/ UpdateEdgeDataMissing
    \/ ApplyPresetMissing
    \/ RenamePresetMissing
    \/ RemovePresetMissing
    \/ EditTimerFire
    \/ handleUndo

SpecCalls == Init /\ [][NextCalls]_vars

(***************************************************************************)
(* Style changes of cards and connections, with undo and redo.             *)
(***************************************************************************)
NextColors ==
    \/ AddPersonNode
    \/ AddSectionNode
    \/ Connect
    \/ ColorNode
    \/ UpdateEdgeData
    \/ EditTimerFire
    \/ handleUndo
    \/ handleRedo

SpecColors == Init /\ [][NextColors]_vars

\* C11: a call of onConnect or addEdge with a source or a target that is
\* no node of the graph leaves nodes, edges, pastStates and futureStates
\* unchanged.
C11_ConnectMissingNoOp ==
    [][lastOp' \in {"onConnect:missing", "addEdge:missing"} =>
          UNCHANGED <<nodes, edges, pastStates, futureStates>>]_vars

\* The names of the mutations called with an id that matches nothing.
MissingMutations ==
    {"removeNode:missing", "updateNodeData:missing", "removeEdge:missing",
     "updateEdgeData:missing", "applyPreset:missing", "renamePreset:missing",
     "removePreset:missing"}

\* C12: on a graph whose connections all have their endpoints, a mutation
\* called with an id that matches nothing leaves nodes, edges, presets,
\* pastStates and futureStates unchanged when it returns, and so does the
\* timer that a lone updateNodeData call with such an id armed.
C12_MissingIdNoOp ==
    [][/\ (lastOp' \in MissingMutations /\ EndpointsExist) =>
            UNCHANGED <<nodes, edges, presets, pastStates, futureStates>>
       /\ (/\ lastOp = "updateNodeData:missing"
           /\ EndpointsExist
           /\ gEdit # Null /\ gEdit[1].k = 1 /\ ~gEdit[1].done
           /\ lastOp' = "editTimer") =>
            UNCHANGED <<nodes, edges, presets, pastStates, futureStates>>]_vars

\* No drag and no edit burst is pending and capture is on.
NoGesture == editSnapshot = Null /\ preDragSnapshot = Null /\ isTracking

\* C13: with no gesture pending, a call that changes the colour of a node
\* or of a connection has pushed the snapshot taken before the change onto
\* pastStates when it returns.
C13_ColorCommits ==
    [][(/\ NoGesture
        /\ \/ lastOp' = "updateNodeData:color"
           \/ /\ lastOp' = "updateEdgeData"
              /\ \E i \in 1..Len(edges) :
                    edges'[i].data.color # edges[i].data.color
        /\ partialize(nodes', edges') # Stripped) =>
          pastStates' = Committed(pastStates, Stripped)]_vars


(***************************************************************************)
(* Copy and paste on an imported team.                                     *)
(***************************************************************************)
NextClipboard ==
    \/ ImportTeam
    \/ AddPersonNode
    \/ SelectNode
    \/ copySelected
    \/ pasteClipboard
    \/ handleUndo
    \/ handleRedo
    \/ resetFlow
    \/ loadFlow

SpecClipboard == Init /\ [][NextClipboard]_vars

\* An edge with its id and endpoints blanked: handles, data, style.
EdgeLook(e) == [e EXCEPT !.id = 0, !.source = 0, !.target = 0]

\* C14: a paste right after a copy keeps the topology of the selection.
\* With sel the selected nodes and f the map from sel[i] to the i-th
\* inserted node: the inserted nodes have pairwise distinct ids unused
\* before (f is injective into new nodes), the edges inserted are, one
\* for one, the edges with both endpoints in sel, each running from
\* f(source) to f(target) with the same handles, data and style under an
\* unused id, and the edges present before are unchanged; so no inserted
\* edge touches a node that existed before.
C14_PasteKeepsTopology ==
    [][(/\ lastOp = "copySelected"
        /\ lastOp' = "pasteClipboard"
        /\ Len(selectedNodes(nodes)) > 0) =>
          LET sel == selectedNodes(nodes)
              internal == SelectSeq(edges, LAMBDA e :
                              /\ e.source \in NodeIds(sel)
                              /\ e.target \in NodeIds(sel))
              f(id) == nodes'[Len(nodes) +
                              (CHOOSE i \in 1..Len(sel) : sel[i].id = id)].id
              used == NodeIds(nodes) \cup NodeIds(edges)
          IN /\ Len(nodes') = Len(nodes) + Len(sel)
             /\ \A i \in 1..Len(sel) : f(sel[i].id) \notin used
             /\ \A i, j \in 1..Len(sel) :
                    f(sel[i].id) = f(sel[j].id) => i = j
             /\ Len(edges') = Len(edges) + Len(internal)
             /\ SubSeq(edges', 1, Len(edges)) = edges
             /\ \A j \in 1..Len(internal) :
                    LET pasted == edges'[Len(edges) + j]
                    IN /\ pasted.source = f(internal[j].source)
                       /\ pasted.target = f(internal[j].target)
                       /\ EdgeLook(pasted) = EdgeLook(internal[j])
                       /\ pasted.id \notin used
                       /\ pasted.source \notin NodeIds(nodes)
                       /\ pasted.target \notin NodeIds(nodes)
                       /\ \A k \in 1..Len(internal) :
                              edges'[Len(edges) + k].id = pasted.id => k = j]_vars

\* Two connected persons of a chain of three were copied and pasted at
\* once: the copy of their connection joins the two copies, and the
\* connection to the third person was left out.
C14_Witness ==
    /\ lastOp = "pasteClipboard"
    /\ gCopy # Null
    /\ gCopy[1].direct
    /\ gCopy[1].n = 1
    /\ Len(gCopy[1].at) = 2
    /\ Len(nodes) = 5
    /\ Len(edges) = 3
    /\ edges[3].source = nodes[4].id
    /\ edges[3].target = nodes[5].id


\* C15: sequential pastes fan out.  After a copy of a non-empty
\* selection, the n-th paste made with no copy call in between appends
\* one node per copied node, the i-th at the i-th copied node's position
\* at copy time plus n * PASTE_OFFSET on both axes, whatever undo and
\* redo calls come between the pastes.
C15_PastesFanOut ==
    [][(lastOp' = "pasteClipboard" /\ gCopy # Null) =>
          LET at == gCopy[1].at
              n == gCopy'[1].n
          IN /\ n = gCopy[1].n + 1
             /\ Len(nodes') = Len(nodes) + Len(at)
             /\ \A i \in 1..Len(at) :
                    nodes'[Len(nodes) + i].position =
                        Pos(at[i].x + n * PASTE_OFFSET,
                            at[i].y + n * PASTE_OFFSET)]_vars

\* A second paste from the same copy, made after the first paste was
\* undone.
C15_Witness ==
    /\ lastOp = "pasteClipboard"
    /\ gCopy # Null
    /\ gCopy[1].n = 2
    /\ Len(nodes) = 2
    /\ nodes[2].position = Pos(gCopy[1].at[1].x + 2 * PASTE_OFFSET,
                               gCopy[1].at[1].y + 2 * PASTE_OFFSET)


(***************************************************************************)
(* Auto-layout of imported charts.                                         *)
(***************************************************************************)
NextLayout ==
    \/ ImportChart
    \/ RemoveEdge
    \/ autoLayout

SpecLayout == Init /\ [][NextLayout]_vars

\* The persons reachable from the person c over one or more tree edges.
RECURSIVE TreeReach(_, _)
TreeReach(tes, S) ==
    LET more == S \cup {tes[i].target : i \in {j \in 1..Len(tes) :
                                                 tes[j].source \in S}}
    IN IF more = S THEN S ELSE TreeReach(tes, more)

TreeDescendants(tes, c) ==
    TreeReach(tes, {tes[i].target : i \in {j \in 1..Len(tes) :
                                             tes[j].source = c}})

\* The position of node id in the node list ns.
PositionOf(ns, id) == ns[CHOOSE i \in 1..Len(ns) : ns[i].id = id].position

\* C16: autoLayout moves the tree-descendants of a side child with it.
\* For every connection P -> C between persons with target anchor Left
\* and every person D other than C, reachable from C over top-anchored
\* connections and not itself the target of a side connection, the move
\* of D from its layered position to its final position equals the move
\* of C.  Stated for side children that lie on no cycle of top-anchored
\* connections.
C16_DescendantsFollow ==
    [][(lastOp' = "autoLayout" /\ Len(nodes) > 0) =>
          LET tes == treeEdgesOf(nodes, edges)
              ses == sideEdgesOf(nodes, edges)
              layered == layeredPos(nodes, edges)
              final(id) == PositionOf(nodes', id)
          IN \A k \in 1..Len(ses) :
                 ses[k].targetHandle = "target-left" =>
                     LET C == ses[k].target
                     IN \A D \in TreeDescendants(tes, C) :
                            (/\ C \notin TreeDescendants(tes, C)
                             /\ D \notin Range(Targets(ses))) =>
                                /\ final(D).x - layered[D].x
                                      = final(C).x - layered[C].x
                                /\ final(D).y - layered[D].y
                                      = final(C).y - layered[C].y]_vars


\* The persons autoLayout moves after the layered pass: the targets of
\* the side connections and their tree-descendants.
MovedBySides(ns, es) ==
    LET tes == treeEdgesOf(ns, es)
        sideTargets == Range(Targets(sideEdgesOf(ns, es)))
    IN sideTargets \cup UNION {TreeDescendants(tes, c) : c \in sideTargets}

\* The index (from 0) of the k-th side connection among the side
\* connections of the same parent and the same side before it.
SlotIndex(ses, k) ==
    Cardinality({j \in 1..(k - 1) :
                    /\ ses[j].source = ses[k].source
                    /\ (ses[j].targetHandle = "target-left")
                           = (ses[k].targetHandle = "target-left")})

\* C17: side placement.  For a person P that the side pass does not
\* move, and the i-th connection (i from 0) from P on one side whose
\* target T has no other side connection and no tree ancestor among the
\* moved persons, autoLayout leaves T at
\*   x = P.x - SIDE_OFFSET_X for target anchor Right,
\*   x = P.x + SIDE_OFFSET_X for target anchor Left,
\*   y = P.y + PERSON_NODE_HEIGHT + SIDE_START_Y
\*         + i * (PERSON_NODE_HEIGHT + SIDE_STACK_GAP_Y),
\* so two such targets of one parent on one side never share a slot.
C17_SidePlacement ==
    [][(lastOp' = "autoLayout" /\ Len(nodes) > 0) =>
          LET tes == treeEdgesOf(nodes, edges)
              ses == sideEdgesOf(nodes, edges)
              final(id) == PositionOf(nodes', id)
              placedOnce(k) ==
                  /\ ses[k].source \notin MovedBySides(nodes, edges)
                  /\ \A j \in 1..Len(ses) :
                         ses[j].target = ses[k].target => j = k
                  /\ \A c \in Range(Targets(ses)) :
                         ses[k].target \notin TreeDescendants(tes, c)
          IN \A k \in 1..Len(ses) :
                 placedOnce(k) =>
                     LET P == final(ses[k].source)
                         T == final(ses[k].target)
                     IN /\ T.x = IF ses[k].targetHandle = "target-left"
                                 THEN P.x + SIDE_OFFSET_X
                                 ELSE P.x - SIDE_OFFSET_X
                        /\ T.y = P.y + PERSON_NODE_HEIGHT + SIDE_START_Y
                                 + SlotIndex(ses, k)
                                   * (PERSON_NODE_HEIGHT + SIDE_STACK_GAP_Y)
                        /\ \A j \in 1..Len(ses) :
                               (j # k /\ placedOnce(j)) =>
                                   final(ses[j].target) # T]_vars

\* A person whose two assistants on each side were just laid out: the
\* second assistant of each side stands one slot below the first.
C17_Witness ==
    /\ lastOp = "autoLayout"
    /\ Len(nodes) = 5
    /\ Len(edges) = 4
    /\ \A k \in 1..4 : edges[k].source = nodes[1].id
    /\ edges[1].targetHandle = "target-left"
    /\ edges[2].targetHandle = "target-left"
    /\ edges[3].targetHandle = "target-right"
    /\ edges[4].targetHandle = "target-right"
    /\ nodes[2].position.x = nodes[1].position.x + SIDE_OFFSET_X
    /\ nodes[4].position.x = nodes[1].position.x - SIDE_OFFSET_X
    /\ nodes[3].position.y = nodes[2].position.y
                             + PERSON_NODE_HEIGHT + SIDE_STACK_GAP_Y
    /\ nodes[5].position.y = nodes[4].position.y
                             + PERSON_NODE_HEIGHT + SIDE_STACK_GAP_Y


\* Every connection is top-anchored and no node is reachable from itself.
PurelyHierarchical(ns, es) ==
    /\ \A k \in 1..Len(es) : es[k].targetHandle = "target-top"
    /\ \A i \in 1..Len(ns) : ns[i].id \notin TreeDescendants(es, ns[i].id)

\* C18: autoLayout is idempotent on an acyclic, purely hierarchical
\* graph.  A second autoLayout call made right after a first one leaves
\* every node at the position the first call gave it and leaves
\* pastStates as it was.
C18_LayoutIdempotent ==
    [][(/\ lastOp = "autoLayout"
        /\ lastOp' = "autoLayout"
        /\ PurelyHierarchical(nodes, edges)) =>
          /\ Len(nodes') = Len(nodes)
          /\ \A i \in 1..Len(nodes) :
                 PositionOf(nodes', nodes[i].id) = nodes[i].position
          /\ pastStates' = pastStates]_vars

\* A hierarchy with a shared subordinate was laid out twice in a row: the
\* newest history entry is still the snapshot from before the first
\* layout, and the second call pushed nothing.
C18_Witness ==
    /\ lastOp = "autoLayout"
    /\ PurelyHierarchical(nodes, edges)
    /\ Len(edges) = 4
    /\ Len(pastStates) > 0
    /\ gPre.pastLen = Len(pastStates)
    /\ pastStates[Len(pastStates)].edges = Stripped.edges
    /\ pastStates[Len(pastStates)].nodes # Stripped.nodes


\* The node with the given id, in the node list ns.
NodeOf(ns, id) == ns[CHOOSE i \in 1..Len(ns) : ns[i].id = id]

NextPresets ==
    \/ ImportGroup
    \/ AddPersonNode
    \/ SelectNode
    \/ addPreset
    \/ ApplyPreset
    \/ RenamePreset
    \/ RemovePreset
    \/ handleUndo
    \/ handleRedo

SpecPresets == Init /\ [][NextPresets]_vars

\* C20: addPreset.  With no node selected the call returns null and
\* changes neither the store nor the history.  With a selection it
\* appends one preset to the presets it leaves in place; the preset's
\* nodes are the selected nodes, in order, each moved by the same
\* translation, such that the smallest x and the smallest y of the
\* preset are 0 (so the offsets between the nodes are those of the
\* selection); its connections are exactly the connections with both
\* endpoints selected.
C20_PresetNormalised ==
    [][lastOp' \in {"addPreset", "addPreset:null"} =>
          LET sel == selectedNodes(nodes)
              ids == NodeIds(sel)
          IN IF Len(sel) = 0
             THEN /\ lastOp' = "addPreset:null"
                  /\ UNCHANGED <<nodes, edges, presets, fileName, fileVersion,
                                 pastStates, futureStates>>
             ELSE /\ lastOp' = "addPreset"
                  /\ Len(presets') = Len(presets) + 1
                  /\ SubSeq(presets', 1, Len(presets)) = presets
                  /\ LET p == presets'[Len(presets')]
                     IN /\ Len(p.nodes) = Len(sel)
                        /\ \A i \in 1..Len(sel) :
                               [p.nodes[i] EXCEPT !.position = Pos(0, 0),
                                                  !.selected = FALSE]
                                 = [sel[i] EXCEPT !.position = Pos(0, 0),
                                                  !.selected = FALSE]
                        /\ \A i, j \in 1..Len(sel) :
                               /\ p.nodes[i].position.x - p.nodes[j].position.x
                                    = sel[i].position.x - sel[j].position.x
                               /\ p.nodes[i].position.y - p.nodes[j].position.y
                                    = sel[i].position.y - sel[j].position.y
                        /\ \A i \in 1..Len(sel) :
                               p.nodes[i].position.x >= 0
                               /\ p.nodes[i].position.y >= 0
                        /\ \E i \in 1..Len(sel) : p.nodes[i].position.x = 0
                        /\ \E i \in 1..Len(sel) : p.nodes[i].position.y = 0
                        /\ p.edges = SelectSeq(edges, LAMBDA e :
                                         e.source \in ids /\ e.target \in ids)]_vars

\* A preset was just made from A at (120,80) and B at (170,80): its nodes
\* are at (0,0) and (50,0) and it holds the one connection between them.
C20_Witness ==
    /\ lastOp = "addPreset"
    /\ Len(presets) > 0
    /\ LET p == presets[Len(presets)]
       IN /\ Len(p.nodes) = 2
          /\ p.nodes[1].position = Pos(0, 0)
          /\ p.nodes[2].position = Pos(50, 0)
          /\ Len(p.edges) = 1
          /\ Len(edges) = 2


\* The ids stored in the presets ps: of their nodes and connections.
StoredIds(ps) ==
    UNION {NodeIds(ps[i].nodes) \cup NodeIds(ps[i].edges) : i \in 1..Len(ps)}

\* C21: a preset is a value.  An applyPreset call that inserts something
\* leaves the presets list as it was; the nodes and connections it
\* appends are those of one stored preset, one for one, under pairwise
\* distinct ids that are neither ids of the graph before the call nor
\* ids stored in a preset, and each appended connection runs between the
\* appended copies of the endpoints stored in the preset.
C21_PresetIsValue ==
    [][lastOp' \in {"applyPreset", "applyPreset:missing"} =>
          /\ presets' = presets
          /\ Len(nodes') >= Len(nodes)
          /\ Len(edges') >= Len(edges)
          /\ SubSeq(edges', 1, Len(edges)) = edges
          /\ LET newNodes == SubSeq(nodes', Len(nodes) + 1, Len(nodes'))
                 newEdges == SubSeq(edges', Len(edges) + 1, Len(edges'))
                 taken == NodeIds(nodes) \cup NodeIds(edges) \cup StoredIds(presets)
             IN /\ NodeIds(newNodes) \cap taken = {}
                /\ NodeIds(newEdges) \cap taken = {}
                /\ NodeIds(newEdges) \cap NodeIds(newNodes) = {}
                /\ Cardinality(NodeIds(newNodes)) = Len(newNodes)
                /\ Cardinality(NodeIds(newEdges)) = Len(newEdges)
                /\ Len(newNodes) > 0 =>
                     \E i \in 1..Len(presets) :
                        LET p == presets[i]
                            f(id) == newNodes[CHOOSE k \in 1..Len(p.nodes) :
                                                 p.nodes[k].id = id].id
                        IN /\ Len(newNodes) = Len(p.nodes)
                           /\ Len(newEdges) = Len(p.edges)
                           /\ \A j \in 1..Len(p.edges) :
                                  /\ newEdges[j].source = f(p.edges[j].source)
                                  /\ newEdges[j].target = f(p.edges[j].target)]_vars

\* A preset of two connected persons was just applied: the graph holds
\* the three imported persons and two new ones, joined by a new
\* connection, and the preset still stores the ids of the originals.
C21_Witness ==
    /\ lastOp = "applyPreset"
    /\ Len(nodes) = 5
    /\ Len(edges) = 3
    /\ Len(presets) = 1
    /\ NodeIds(presets[1].nodes) = {nodes[1].id, nodes[2].id}
    /\ Len(presets[1].edges) = 1
    /\ edges[3].source = nodes[4].id
    /\ edges[3].target = nodes[5].id


PresetLibraryOps ==
    {"addPreset", "addPreset:null", "renamePreset", "renamePreset:missing",
     "removePreset", "removePreset:missing"}

\* C22: the preset library is not undoable.  addPreset, renamePreset and
\* removePreset leave pastStates and futureStates as they were, and undo
\* and redo leave presets, fileName and fileVersion as they were.
C22_PresetsNotUndoable ==
    [][/\ lastOp' \in PresetLibraryOps => UNCHANGED <<pastStates, futureStates>>
       /\ lastOp' \in {"undo", "redo"} =>
              UNCHANGED <<presets, fileName, fileVersion>>]_vars

\* A preset was just renamed while both stacks held an entry.
C22_Witness ==
    /\ lastOp = "renamePreset"
    /\ Len(presets) = 1
    /\ presets[1].name \in PresetNames
    /\ Len(pastStates) > 0
    /\ Len(futureStates) > 0


\* C23: copying is not undoable and the clipboard is outside the tracked
\* state.  copySelected leaves nodes, edges, presets, pastStates and
\* futureStates as they were; undo, redo, resetFlow and loadFlow leave
\* the clipboard as it was.
C23_ClipboardOutsideHistory ==
    [][/\ lastOp' = "copySelected" =>
              UNCHANGED <<nodes, edges, presets, pastStates, futureStates>>
       /\ lastOp' \in {"undo", "redo", "resetFlow", "loadFlow"} =>
              clipboard' = clipboard]_vars

\* The graph was just reset while the clipboard held a copied person.
C23_Witness ==
    /\ lastOp = "resetFlow"
    /\ Len(clipboard.nodes) > 0
    /\ nodes = <<>>
    /\ gCopy # Null


(***************************************************************************)
(* The example scenario: two persons, a connection, a layout, undo.  The   *)
(* store starts as constructed; the step budget is that of the scenario.   *)
(***************************************************************************)
InitScenario ==
    /\ nodes = <<>> /\ edges = <<>>
    /\ fileName = DEFAULT_FILE_NAME /\ fileVersion = 1 /\ presets = <<>>
    /\ pastStates = <<>> /\ futureStates = <<>> /\ isTracking = TRUE
    /\ clipboard = [nodes |-> <<>>, edges |-> <<>>]
    /\ preDragSnapshot = Null /\ editSnapshot = Null /\ editTimer = FALSE
    /\ storage = Null /\ saveTimers = {}
    /\ nextId = 1
    /\ pointer = Null
    /\ lastOp = "init"
    /\ gPre = [pastLen |-> 0, futLen |-> 0]
    /\ gDrag = Null /\ gEdit = Null
    /\ gSym = Some([trace |-> <<partialize(<<>>, <<>>)>>, depth |-> 0,
                    deep |-> 0])
    /\ gCopy = Null
    /\ gScen = Some(0)
    /\ gClock = Null
    /\ steps = MaxOps - ScenarioOps

NextScenario ==
    \/ AddPersonAt
    \/ Connect
    \/ autoLayout
    \/ handleUndo

SpecScenario == InitScenario /\ [][NextScenario]_vars

NextVersion ==
    \/ SetFileVersion
    \/ incrementVersion
    \/ decrementVersion
    \/ exportFlow
    \/ ImportVersioned
    \/ AddPersonNode
    \/ resetFlow
    \/ loadFlow

SpecVersion == Init /\ [][NextVersion]_vars

\* C25: every exportFlow call leaves fileVersion exactly 1 greater than
\* it was before the call.
C25_ExportIncrements ==
    [][lastOp' = "exportFlow" => fileVersion' = fileVersion + 1]_vars

\* C26: the file version is floored at 1.  In every state reached through
\* setFileVersion, incrementVersion, decrementVersion, resetFlow, loadFlow
\* and importFlow, fileVersion is an integer and at least 1.
C26_VersionFloored ==
    fileVersion \in Nat /\ fileVersion >= 1


(***************************************************************************)
(* Import of well-formed and malformed payloads.                           *)
(***************************************************************************)
NextImport ==
    \/ ImportPayload
    \/ importUnreadable
    \/ AddPersonNode
    \/ SelectNode
    \/ addPreset
    \/ handleUndo

SpecImport == Init /\ [][NextImport]_vars

\* C27: import rejects malformed input without changing state.  When the
\* payload is unparsable, lacks a list of nodes or of edges, or the user
\* declines, the call leaves nodes, edges, presets, fileName,
\* fileVersion, both stacks and the persisted copy as they were; when the
\* store or the persisted copy changes in an import, the payload passed
\* the shape check and the user accepted; an accepted payload without
\* presets leaves the presets list empty.
C27_ImportRejects ==
    [][/\ lastOp' \in {"importFlow:unreadable", "importFlow:invalid",
                       "importFlow:declined"} =>
              UNCHANGED <<nodes, edges, presets, fileName, fileVersion,
                          pastStates, futureStates, storage>>
       /\ lastOp' = "importFlow:nopresets" => presets' = <<>>]_vars

\* A payload without presets and meta was just imported over a graph the
\* user had built: the library is empty, the name is the default, and
\* the persisted copy was rewritten.
C27_Witness ==
    /\ lastOp = "importFlow:nopresets"
    /\ presets = <<>>
    /\ storage # Null
    /\ storage[1].presets = <<>>
    /\ fileName = DEFAULT_FILE_NAME
    /\ \E i \in 1..Len(pastStates) : Len(pastStates[i].nodes) > 0


\* C28: an onNodesChange batch that only selects or deselects nodes never
\* adds an entry to pastStates and never clears futureStates.
C28_SelectionLeavesHistory ==
    [][lastOp' = "onNodesChange:select" =>
           UNCHANGED <<pastStates, futureStates>>]_vars


\* C29: getTreeDescendants collapses revisits.  For every side child C
\* of the chart, the list getTreeDescendants returns for C holds each
\* person at most once and does not hold C, so that repositionChild
\* leaves C at the position it is given and moves every other
\* tree-descendant of C by the move of C, once.
C29_DescendantsOnce ==
    Len(nodes) > 0 =>
        LET tes == treeEdgesOf(nodes, edges)
            ses == sideEdgesOf(nodes, edges)
            posMap == [id \in PersonIds(nodes) |-> PositionOf(nodes, id)]
        IN \A k \in 1..Len(ses) :
               LET C == ses[k].target
                   d == getTreeDescendants(tes, C, {}).result
                   newPos == Pos(posMap[C].x + SIDE_OFFSET_X,
                                 posMap[C].y + SIDE_START_Y)
                   moved == repositionChild(posMap, tes, C, newPos)
               IN /\ \A i, j \in 1..Len(d) : d[i] = d[j] => i = j
                  /\ C \notin Range(d)
                  /\ moved[C] = newPos
                  /\ \A D \in TreeDescendants(tes, C) \ {C} :
                         moved[D] = Pos(posMap[D].x + SIDE_OFFSET_X,
                                        posMap[D].y + SIDE_START_Y)


\* C30: automatic history capture is paused exactly while a gesture is
\* pending, that is while a pre-drag snapshot or a pre-edit snapshot is
\* held.
C30_PausedIffGesturePending ==
    ~isTracking <=> (preDragSnapshot # Null \/ editSnapshot # Null)


(***************************************************************************)
(* The order of the history: gestures, undo and redo, with the capture     *)
(* times kept.                                                             *)
(***************************************************************************)
InitChrono ==
    /\ nodes = <<>> /\ edges = <<>>
    /\ fileName = DEFAULT_FILE_NAME /\ fileVersion = 1 /\ presets = <<>>
    /\ pastStates = <<>> /\ futureStates = <<>> /\ isTracking = TRUE
    /\ clipboard = [nodes |-> <<>>, edges |-> <<>>]
    /\ preDragSnapshot = Null /\ editSnapshot = Null /\ editTimer = FALSE
    /\ storage = Null /\ saveTimers = {}
    /\ nextId = 1
    /\ pointer = Null
    /\ lastOp = "init"
    /\ gPre = [pastLen |-> 0, futLen |-> 0]
    /\ gDrag = Null /\ gEdit = Null
    /\ gSym = Some([trace |-> <<partialize(<<>>, <<>>)>>, depth |-> 0,
                    deep |-> 0])
    /\ gCopy = Null
    /\ gScen = Some(0)
    /\ gClock = Some([past |-> <<>>, drag |-> 0, edit |-> 0])
    /\ steps = 0

NextChrono ==
    \/ AddPersonNode
    \/ EditNode
    \/ EditTimerFire
    \/ DragFrame
    \/ DragRelease
    \/ handleUndo
    \/ handleRedo

SpecChrono == InitChrono /\ [][NextChrono]_vars

\* C31: the history is chronological.  Read from oldest to newest, the
\* entries of pastStates were captured in that order: no snapshot lies
\* above a snapshot that was captured after it.
C31_HistoryChronological ==
    gClock # Null =>
        \A i, j \in 1..Len(gClock[1].past) :
            i < j => gClock[1].past[i] < gClock[1].past[j]


\* C32: the stack-order policy.  Every Person node has zIndex
\* PERSON_Z_INDEX; every Section node has zIndex SECTION_SELECTED_Z_INDEX
\* when it is selected and SECTION_Z_INDEX when it is not.
C32_StackOrderPolicy ==
    \A i \in 1..Len(nodes) :
        /\ nodes[i].type = "person" => nodes[i].zIndex = PERSON_Z_INDEX
        /\ nodes[i].type = "section" =>
               nodes[i].zIndex = IF nodes[i].selected
                                 THEN SECTION_SELECTED_Z_INDEX
                                 ELSE SECTION_Z_INDEX


\* C33: no empty undo step.  Whenever no gesture is pending and
\* pastStates is not empty, its newest entry differs from the stripped
\* graph state, so that undo() changes nodes or edges.
C33_NoEmptyUndoStep ==
    (preDragSnapshot = Null /\ editSnapshot = Null /\ pastStates # <<>>) =>
        pastStates[Len(pastStates)] # partialize(nodes, edges)


(***************************************************************************)
(* Layout of charts in which a person reports to several persons.          *)
(***************************************************************************)
\* Matrix: R manages P and A; X is A's assistant; P also reports to X and
\* has an assistant S.  Staff: R manages P, P has two assistants.
MatrixFiles ==
    {ChartFile(<<newPerson(-1, Pos(100, 100)), newPerson(-2, Pos(100, 300)),
                 newPerson(-3, Pos(300, 300)), newPerson(-4, Pos(500, 300)),
                 newPerson(-5, Pos(100, 500))>>,
               <<ChartEdge(-11, -1, -2, "target-top"),
                 ChartEdge(-12, -1, -3, "target-top"),
                 ChartEdge(-13, -3, -4, "target-left"),
                 ChartEdge(-14, -4, -2, "target-top"),
                 ChartEdge(-15, -2, -5, "target-left")>>),
     ChartFile(<<newPerson(-1, Pos(100, 100)), newPerson(-2, Pos(100, 300)),
                 newPerson(-3, Pos(300, 300)), newPerson(-4, Pos(0, 300))>>,
               <<ChartEdge(-11, -1, -2, "target-top"),
                 ChartEdge(-12, -2, -3, "target-left"),
                 ChartEdge(-13, -2, -4, "target-right")>>)}

ImportMatrix == \E f \in MatrixFiles : importFlow(f, TRUE)

NextMatrix ==
    \/ ImportMatrix
    \/ RemoveEdge
    \/ autoLayout

SpecMatrix == Init /\ [][NextMatrix]_vars

\* No person reaches itself over connections between persons.
AcyclicPersons(ns, es) ==
    LET pes == treeEdgesOf(ns, es) \o sideEdgesOf(ns, es)
    IN \A id \in PersonIds(ns) : id \notin TreeDescendants(pes, id)

\* C34: side children follow their parent's final position.  After
\* autoLayout on an acyclic person graph, every person C that is the
\* target of exactly one side connection P -> C stands at the final
\* position of P plus the offset of that connection's slot.
C34_SideChildrenFollowParent ==
    [][(lastOp' = "autoLayout" /\ Len(nodes) > 0
        /\ AcyclicPersons(nodes, edges)) =>
          LET ses == sideEdgesOf(nodes, edges)
              final(id) == PositionOf(nodes', id)
          IN \A k \in 1..Len(ses) :
                 (\A j \in 1..Len(ses) :
                      ses[j].target = ses[k].target => j = k) =>
                     LET P == final(ses[k].source)
                         C == final(ses[k].target)
                     IN /\ C.x = IF ses[k].targetHandle = "target-left"
                                 THEN P.x + SIDE_OFFSET_X
                                 ELSE P.x - SIDE_OFFSET_X
                        /\ C.y = P.y + PERSON_NODE_HEIGHT + SIDE_START_Y
                                 + SlotIndex(ses, k)
                                   * (PERSON_NODE_HEIGHT + SIDE_STACK_GAP_Y)]_vars


(***************************************************************************)
(* Edit bursts and their timer.  The calls of the user stop one step       *)
(* before the budget, so that a timer armed by the last call can expire;   *)
(* the runtime runs the callback of every timer that is not cleared.       *)
(***************************************************************************)
UserCall(A) == steps < MaxOps - 1 /\ A

NextBurst ==
    \/ UserCall(AddPersonNode)
    \/ UserCall(EditNode)
    \/ UserCall(DragFrame)
    \/ UserCall(DragRelease)
    \/ UserCall(handleUndo)
    \/ EditTimerFire

SpecBurst == Init /\ [][NextBurst]_vars /\ WF_vars(EditTimerFire)

\* C35: every edit burst is eventually committed.  A pre-edit snapshot
\* that is held is eventually released by the timer callback; and when
\* the callback finds a snapshot, it leaves it as the newest entry of
\* pastStates, with no snapshot pending and the state persisted.
C35_BurstEventuallyCommitted ==
    /\ (editSnapshot # Null) ~> (lastOp = "editTimer" /\ editSnapshot = Null)
    /\ [][(lastOp' = "editTimer" /\ editSnapshot # Null) =>
             /\ pastStates' # <<>>
             /\ pastStates'[Len(pastStates')] = editSnapshot[1]
             /\ editSnapshot' = Null
             /\ ~editTimer'
             /\ storage' = saved(nodes', edges', fileName', fileVersion',
                                 presets')]_vars

\* The timer of a burst of two calls has expired: the snapshot taken
\* before the first call is the newest entry, and nothing is pending.
C35_Witness ==
    /\ lastOp = "editTimer"
    /\ gEdit # Null /\ gEdit[1].done /\ gEdit[1].k = 2
    /\ editSnapshot = Null /\ ~editTimer
    /\ pastStates # <<>>
    /\ pastStates[Len(pastStates)] = gEdit[1].snap0
    /\ pastStates[Len(pastStates)] # partialize(nodes, edges)
    /\ storage = saved(nodes, edges, fileName, fileVersion, presets)

====
